---- MODULE Spec2Model ----
(***************************************************************************)
(* smart-day-compass: the conflict-detection engine                        *)
(* (src/src/lib/conflictDetection.ts), the add / edit dialogs that gate    *)
(* saves on its result (src/src/components/TaskCard.tsx,                   *)
(* src/src/components/EditTaskDialog.tsx), and the schedule optimizer of   *)
(* the Index page (src/unnamed/part_000, and the earlier one of            *)
(* src/src/pages/Index.tsx), over the task collection of the Index page;   *)
(* the page's collection operations (addTask, saveEditedTask,              *)
(* toggleTaskComplete, deleteTask), the schedule of the day                *)
(* (src/src/components/DailySchedule.tsx), and the time primitives         *)
(* timeToMinutes / minutesToTime on the text of a time.                    *)
(*                                                                         *)
(* An "HH:MM" string is the pair <<HH, MM>> of its two zero-padded number  *)
(* fields; the empty string and undefined (both falsy in the source) are   *)
(* the empty tuple NoTime.  An absent optional string field is Undefined.  *)
(*                                                                         *)
(* The two dialogs are modal and never open together: dialog says which    *)
(* one is open, and form and conflictResult are its field state.  Both     *)
(* useEffect hooks run after every render, before the next event, so each  *)
(* action that changes a field ends with the effect's conflict check.      *)
(* Cancel is not an action: it closes a dialog without touching the        *)
(* collection, and the fields it leaves behind are fields the setters      *)
(* produce again after the dialog is reopened.  The end-time input is left *)
(* as loaded (empty in the add dialog, the stored end in the edit dialog). *)
(***************************************************************************)
EXTENDS Integers, Sequences, FiniteSets, TLC

VARIABLES
  today,          \* new Date().toISOString().split('T')[0], the ambient clock date
  ovArgs,         \* arguments of one doTimesOverlap call
  ovResult,       \* its return value
  newTask,        \* argument newTask of one checkTimeConflicts call
  existingTasks,  \* argument existingTasks of that call
  result,         \* the ConflictCheckResult it returned
  severity,       \* getConflictSeverity(result.conflicts)
  pc,             \* position of the call: "input" before, "done" after
  tasks,          \* Index: the task collection (useLocalStorage 'planner-tasks')
  clock,          \* Date.now(), the millisecond clock addTask reads for the id
  editingTask,    \* Index: the task handed to the edit dialog, or NoTask
  dialog,         \* which dialog is open: "none", "add" or "edit"
  form,           \* the open dialog's field state (title, type, frequency, ...)
  conflictResult, \* the dialog's conflictResult state, or Null
  lastSubmit,     \* the last event, when it was a handleSubmit: dialog, severity seen, return path
  saves,          \* number of onAddTask / onSave calls so far
  lastPass,       \* the last event, when it was an optimizeSchedule call: its input, locals and toast
  passes,         \* number of optimizeSchedule calls so far
  indexPage,      \* the Index page that is mounted: "current" (src/unnamed/part_000)
                  \* or "earlier" (src/src/pages/Index.tsx)
  dayOfWeek,      \* new Date().getDay(): 0 = Sunday ... 6 = Saturday
  schedule,       \* the list generateSchedule returned
  prim,           \* one call of the time primitives: implementation, argument, results
  lastOp          \* the last event, when it was a collection operation: name, argument, input

vars == <<today, ovArgs, ovResult, newTask, existingTasks, result, severity, pc,
          tasks, clock, editingTask, dialog, form, conflictResult, lastSubmit, saves,
          lastPass, passes, indexPage, dayOfWeek, schedule, prim, lastOp>>

callVars == <<ovArgs, ovResult, newTask, existingTasks, result, severity, pc>>
pageVars == <<tasks, clock, editingTask, dialog, form, conflictResult, lastSubmit, saves>>
optVars == <<lastPass, passes, indexPage>>
coreVars == <<dayOfWeek, schedule, prim, lastOp>>

----------------------------------------------------------------------------
(* Values *)

NoTime == <<>>
Undefined == "undefined"
Null == [hasConflicts |-> FALSE, conflicts |-> <<>>, suggestedTime |-> NoTime, isNull |-> TRUE]

\* interface Task
Task(id, title, type, frequency, completed, startTime, endTime, date, category) ==
  [id |-> id, title |-> title, type |-> type, frequency |-> frequency,
   completed |-> completed, startTime |-> startTime, endTime |-> endTime,
   date |-> date, flexibleDuration |-> Undefined, category |-> category,
   suggestedTime |-> NoTime]

NoTask == Task(0, "", "none", Undefined, FALSE, NoTime, NoTime, Undefined, Undefined)

----------------------------------------------------------------------------
(* src/src/lib/conflictDetection.ts *)

DefaultDuration == 60
ProbeCount == 24
ProbeStep == 30

timeToMinutes(time) == time[1] * 60 + time[2]

minutesToTime(minutes) == <<minutes \div 60, minutes % 60>>

\* variant: closed intervals (<= in place of <)
doTimesOverlap_closed(start1, end1, start2, end2) ==
  LET start1Min == timeToMinutes(start1)
      end1Min == IF end1 # NoTime THEN timeToMinutes(end1) ELSE start1Min + DefaultDuration
      start2Min == timeToMinutes(start2)
      end2Min == IF end2 # NoTime THEN timeToMinutes(end2) ELSE start2Min + DefaultDuration
  IN start1Min <= end2Min /\ start2Min <= end1Min

doTimesOverlap(start1, end1, start2, end2) ==
  LET start1Min == timeToMinutes(start1)
      end1Min == IF end1 # NoTime THEN timeToMinutes(end1) ELSE start1Min + DefaultDuration
      start2Min == timeToMinutes(start2)
      end2Min == IF end2 # NoTime THEN timeToMinutes(end2) ELSE start2Min + DefaultDuration
  IN start1Min < end2Min /\ start2Min < end1Min

\* variant: no flexible gate, and any remaining pairing is compared
shouldCompareTasks_noFlexGate(task1, task2) ==
  IF task1.completed \/ task2.completed THEN FALSE
  ELSE IF task1.type = "daily" /\ task2.type = "daily" THEN task1.frequency = task2.frequency
  ELSE IF task1.type = "once" /\ task2.type = "once" THEN task1.date = task2.date
  ELSE IF task1.type = "daily" /\ task2.type = "once" THEN task2.date = today
  ELSE IF task1.type = "once" /\ task2.type = "daily" THEN task1.date = today
  ELSE TRUE

\* variant: two daily tasks are compared whatever their frequencies
shouldCompareTasks_anyFrequency(task1, task2) ==
  IF task1.completed \/ task2.completed THEN FALSE
  ELSE IF task1.type = "flexible" \/ task2.type = "flexible" THEN FALSE
  ELSE IF task1.type = "daily" /\ task2.type = "daily" THEN TRUE
  ELSE IF task1.type = "once" /\ task2.type = "once" THEN task1.date = task2.date
  ELSE IF task1.type = "daily" /\ task2.type = "once" THEN task2.date = today
  ELSE IF task1.type = "once" /\ task2.type = "daily" THEN task1.date = today
  ELSE FALSE

\* variant: a daily and a once task are compared whatever the once task's date
shouldCompareTasks_anyDate(task1, task2) ==
  IF task1.completed \/ task2.completed THEN FALSE
  ELSE IF task1.type = "flexible" \/ task2.type = "flexible" THEN FALSE
  ELSE IF task1.type = "daily" /\ task2.type = "daily" THEN task1.frequency = task2.frequency
  ELSE IF task1.type = "once" /\ task2.type = "once" THEN task1.date = task2.date
  ELSE TRUE

shouldCompareTasks(task1, task2) ==
  IF task1.completed \/ task2.completed THEN FALSE
  ELSE IF task1.type = "flexible" \/ task2.type = "flexible" THEN FALSE
  ELSE IF task1.type = "daily" /\ task2.type = "daily" THEN task1.frequency = task2.frequency
  ELSE IF task1.type = "once" /\ task2.type = "once" THEN task1.date = task2.date
  ELSE IF task1.type = "daily" /\ task2.type = "once" THEN task2.date = today
  ELSE IF task1.type = "once" /\ task2.type = "daily" THEN task1.date = today
  ELSE FALSE

\* the callback of existingTasks.some(...) in findNextAvailableTime
probeHasConflict(testTime, testEndTime, existing, taskToCheck) ==
  \E k \in 1..Len(existing) :
    /\ shouldCompareTasks(taskToCheck, existing[k])
    /\ existing[k].startTime # NoTime
    /\ doTimesOverlap(testTime, testEndTime, existing[k].startTime, existing[k].endTime)

\* variant: one probe too many (i <= 24)
RECURSIVE probeLoop_offByOne(_, _, _, _, _)
probeLoop_offByOne(i, currentTime, desiredStart, existing, taskToCheck) ==
  IF i > ProbeCount THEN desiredStart
  ELSE LET testTime == minutesToTime(currentTime)
           testEndTime == minutesToTime(currentTime + DefaultDuration)
       IN IF ~probeHasConflict(testTime, testEndTime, existing, taskToCheck)
          THEN testTime
          ELSE probeLoop_offByOne(i + 1, currentTime + ProbeStep, desiredStart,
                                  existing, taskToCheck)

\* the for loop of findNextAvailableTime, from iteration i with currentTime
RECURSIVE probeLoop(_, _, _, _, _)
probeLoop(i, currentTime, desiredStart, existing, taskToCheck) ==
  IF i >= ProbeCount THEN desiredStart
  ELSE LET testTime == minutesToTime(currentTime)
           testEndTime == minutesToTime(currentTime + DefaultDuration)
       IN IF ~probeHasConflict(testTime, testEndTime, existing, taskToCheck)
          THEN testTime
          ELSE probeLoop(i + 1, currentTime + ProbeStep, desiredStart, existing, taskToCheck)

\* variant: the first probe is the slot after the desired start
findNextAvailableTime_skipFirst(desiredStart, existing, taskToCheck) ==
  probeLoop(0, timeToMinutes(desiredStart) + ProbeStep, desiredStart, existing, taskToCheck)

findNextAvailableTime(desiredStart, existing, taskToCheck) ==
  probeLoop(0, timeToMinutes(desiredStart), desiredStart, existing, taskToCheck)

conflictMessage(conflictType, existingTask) ==
  IF conflictType = "category"
  THEN <<"You have another", existingTask.category, "task at", existingTask.startTime>>
  ELSE <<"You have another task at", existingTask.startTime>>

\* variant: entries are put in front of the list (unshift in place of push)
RECURSIVE conflictLoop_unshift(_, _, _, _)
conflictLoop_unshift(i, conflicts, candidate, existing) ==
  IF i > Len(existing) THEN conflicts
  ELSE LET existingTask == existing[i]
       IN IF ~shouldCompareTasks(candidate, existingTask)
          THEN conflictLoop_unshift(i + 1, conflicts, candidate, existing)
          ELSE IF existingTask.startTime = NoTime
          THEN conflictLoop_unshift(i + 1, conflicts, candidate, existing)
          ELSE IF doTimesOverlap(candidate.startTime, candidate.endTime,
                                 existingTask.startTime, existingTask.endTime)
          THEN LET conflictType == IF candidate.category = existingTask.category
                                   THEN "category" ELSE "overlap"
               IN conflictLoop_unshift(i + 1,
                    <<[conflictingTask |-> existingTask,
                       conflictType |-> conflictType,
                       message |-> conflictMessage(conflictType, existingTask)]>> \o conflicts,
                    candidate, existing)
          ELSE conflictLoop_unshift(i + 1, conflicts, candidate, existing)

\* variant: an existing task without startTime is reported in place of skipped
RECURSIVE conflictLoop_keepUntimed(_, _, _, _)
conflictLoop_keepUntimed(i, conflicts, candidate, existing) ==
  IF i > Len(existing) THEN conflicts
  ELSE LET existingTask == existing[i]
       IN IF ~shouldCompareTasks(candidate, existingTask)
          THEN conflictLoop_keepUntimed(i + 1, conflicts, candidate, existing)
          ELSE IF existingTask.startTime = NoTime
                  \/ doTimesOverlap(candidate.startTime, candidate.endTime,
                                    existingTask.startTime, existingTask.endTime)
          THEN LET conflictType == IF candidate.category = existingTask.category
                                   THEN "category" ELSE "overlap"
               IN conflictLoop_keepUntimed(i + 1,
                    Append(conflicts, [conflictingTask |-> existingTask,
                                       conflictType |-> conflictType,
                                       message |-> conflictMessage(conflictType, existingTask)]),
                    candidate, existing)
          ELSE conflictLoop_keepUntimed(i + 1, conflicts, candidate, existing)

\* the for loop of checkTimeConflicts over existingTasks[i..]
RECURSIVE conflictLoop(_, _, _, _)
conflictLoop(i, conflicts, candidate, existing) ==
  IF i > Len(existing) THEN conflicts
  ELSE LET existingTask == existing[i]
       IN IF ~shouldCompareTasks(candidate, existingTask)
          THEN conflictLoop(i + 1, conflicts, candidate, existing)
          ELSE IF existingTask.startTime = NoTime
          THEN conflictLoop(i + 1, conflicts, candidate, existing)
          ELSE IF doTimesOverlap(candidate.startTime, candidate.endTime,
                                 existingTask.startTime, existingTask.endTime)
          THEN LET conflictType == IF candidate.category = existingTask.category
                                   THEN "category" ELSE "overlap"
               IN conflictLoop(i + 1,
                    Append(conflicts, [conflictingTask |-> existingTask,
                                       conflictType |-> conflictType,
                                       message |-> conflictMessage(conflictType, existingTask)]),
                    candidate, existing)
          ELSE conflictLoop(i + 1, conflicts, candidate, existing)

checkTimeConflicts(candidate, existing) ==
  IF candidate.startTime = NoTime
  THEN [hasConflicts |-> FALSE, conflicts |-> <<>>, suggestedTime |-> NoTime, isNull |-> FALSE]
  ELSE LET conflicts == conflictLoop(1, <<>>, candidate, existing)
           hasConflicts == Len(conflicts) > 0
       IN [hasConflicts |-> hasConflicts,
           conflicts |-> conflicts,
           suggestedTime |-> IF hasConflicts
                             THEN findNextAvailableTime(candidate.startTime, existing, candidate)
                             ELSE NoTime,
           isNull |-> FALSE]

\* variant: every entry must be a category conflict (every in place of some)
getConflictSeverity_every(conflicts) ==
  IF Len(conflicts) = 0 THEN "none"
  ELSE IF \A k \in 1..Len(conflicts) : conflicts[k].conflictType = "category"
       THEN "error" ELSE "warning"

getConflictSeverity(conflicts) ==
  IF Len(conflicts) = 0 THEN "none"
  ELSE IF \E k \in 1..Len(conflicts) : conflicts[k].conflictType = "category"
       THEN "error" ELSE "warning"

----------------------------------------------------------------------------
(* Inputs of the calls *)

MaxTasks == 2

T(h, m) == <<h, m>>

FormTitle == "t"

\* a daily or once task as a dialog builds it (title and id are immaterial here)
Timed(type, frequency, date, completed, category, startTime, endTime) ==
  Task(0, FormTitle, type, frequency, completed, startTime, endTime, date, category)

\* the four ways a timed task is anchored to a day
Anchors == { <<"daily", "monday_to_saturday", Undefined>>,
             <<"daily", "weekends", Undefined>>,
             <<"once", Undefined, "2025-07-01">>,
             <<"once", Undefined, "2025-07-02">> }

Clock == "2025-07-01"

\* Family E: day anchors, completion, type and category vary; the times are
\* 09:00 and 10:00 with the default duration (09:00 and 10:00 only touch).
EligExisting ==
  { Timed(a[1], a[2], a[3], FALSE, c, s, NoTime) :
      a \in Anchors, c \in {"work", "personal"}, s \in {T(9, 0), T(10, 0)} }
  \cup { Timed("daily", "monday_to_saturday", Undefined, TRUE, "work", T(9, 0), NoTime),
         Timed("once", Undefined, "2025-07-01", TRUE, "work", T(9, 0), NoTime),
         Timed("flexible", "monday_to_saturday", "2025-07-01", FALSE, "work", T(9, 0), T(10, 0)),
         Timed("daily", "monday_to_saturday", Undefined, FALSE, "work", NoTime, NoTime),
         Timed("once", Undefined, Undefined, FALSE, "work", T(9, 0), NoTime),
         Timed("once", Undefined, "", FALSE, "work", T(9, 0), NoTime) }

EligCandidates ==
  { Timed(a[1], a[2], a[3], FALSE, "work", T(9, 0), NoTime) : a \in Anchors }
  \cup { Timed("daily", "monday_to_saturday", Undefined, TRUE, "work", T(9, 0), NoTime),
         Timed("flexible", "monday_to_saturday", "2025-07-01", FALSE, "work", T(9, 0), T(10, 0)),
         Timed("daily", "monday_to_saturday", Undefined, FALSE, "work", NoTime, NoTime),
         Timed("once", Undefined, Undefined, FALSE, "work", T(9, 0), NoTime) }

\* Family T: every task is daily with frequency "daily" and not completed;
\* the intervals vary, among them two that cover all 24 probes.
Daily(category, startTime, endTime) ==
  Timed("daily", "daily", Undefined, FALSE, category, startTime, endTime)

TimeExisting ==
  { Daily("work", T(9, 0), T(10, 0)),
    Daily("personal", T(9, 0), NoTime),
    Daily("personal", T(10, 0), T(11, 0)),
    Daily("work", T(10, 30), T(11, 0)),
    Daily("personal", T(9, 15), T(9, 45)),
    Daily("personal", T(11, 0), T(11, 30)),
    Daily("personal", T(0, 0), T(23, 59)),
    Daily("personal", T(9, 0), T(21, 0)),
    Daily("personal", T(23, 0), NoTime) }

TimeCandidates ==
  { Daily("work", T(9, 0), NoTime),
    Daily("work", T(9, 30), NoTime),
    Daily("work", T(9, 0), T(11, 0)),
    Daily("work", T(9, 0), T(9, 30)),
    Daily("work", T(8, 45), T(9, 5)),
    Daily("work", T(23, 30), NoTime) }

\* the lists of at most MaxTasks tasks over S; the task at position i has id i
ListsOver(S) ==
  UNION { { [i \in 1..n |-> [f[i] EXCEPT !.id = i]] : f \in [1..n -> S] } : n \in 0..MaxTasks }

OvStarts == { T(9, 0), T(9, 30), T(9, 45), T(10, 0), T(10, 30), T(11, 0) }
OvEnds == OvStarts \cup { NoTime }

----------------------------------------------------------------------------
(* Initial values of the parts a specification does not use *)

EmptyForm ==
  [title |-> "", type |-> "flexible", frequency |-> "daily", startTime |-> NoTime,
   endTime |-> NoTime, date |-> "", category |-> "personal", flexibleDuration |-> "day"]

NoArgs == [start1 |-> NoTime, end1 |-> NoTime, start2 |-> NoTime, end2 |-> NoTime]

\* the aggregate severity the dialogs derive from their conflictResult
Severity(cr) == IF cr.hasConflicts THEN getConflictSeverity(cr.conflicts) ELSE "none"

NoSubmit == [dialog |-> "none", severity |-> "none", outcome |-> "none"]

Submitted(d, cr, outcome) == [dialog |-> d, severity |-> Severity(cr), outcome |-> outcome]

\* no collection operation was the last event
NoOp == [op |-> "none", id |-> 0, arg |-> NoTask, before |-> <<>>]

\* no call of the time primitives
NoPrim == [impl |-> "none", kind |-> "none", time |-> <<>>, minutes |-> 0, back |-> <<>>]

\* the weekday of Clock, a Tuesday
ClockDay == 2

CoreIdle ==
  /\ dayOfWeek = ClockDay
  /\ schedule = <<>>
  /\ prim = NoPrim
  /\ lastOp = NoOp

\* no optimizeSchedule call was the last event
NoPass ==
  [version |-> "none", before |-> <<>>, setTasks |-> FALSE, toast |-> "none",
   suggestions |-> <<>>, after |-> "none"]

PageIdle ==
  /\ tasks = <<>>
  /\ clock = 1
  /\ editingTask = NoTask
  /\ dialog = "none"
  /\ form = EmptyForm
  /\ conflictResult = Null
  /\ lastSubmit = NoSubmit
  /\ saves = 0
  /\ lastPass = NoPass
  /\ passes = 0
  /\ indexPage = "current"
  /\ CoreIdle

----------------------------------------------------------------------------
(* One call of doTimesOverlap *)

InitOverlap ==
  /\ today = Clock
  /\ ovArgs \in [start1 : OvStarts, end1 : OvEnds, start2 : OvStarts, end2 : OvEnds]
  /\ ovResult = FALSE
  /\ newTask = NoTask
  /\ existingTasks = <<>>
  /\ result = Null
  /\ severity = "none"
  /\ pc = "input"
  /\ PageIdle

CallDoTimesOverlap ==
  /\ pc = "input"
  /\ ovResult' = doTimesOverlap(ovArgs.start1, ovArgs.end1, ovArgs.start2, ovArgs.end2)
  /\ pc' = "done"
  /\ UNCHANGED <<today, ovArgs, newTask, existingTasks, result, severity>>
  /\ UNCHANGED pageVars
  /\ UNCHANGED coreVars
  /\ UNCHANGED optVars

NextOverlap == CallDoTimesOverlap

SpecOverlap == InitOverlap /\ [][NextOverlap]_vars

----------------------------------------------------------------------------
(* One call of checkTimeConflicts, then getConflictSeverity on its result *)

InitConflict ==
  /\ today = Clock
  /\ ovArgs = NoArgs
  /\ ovResult = FALSE
  /\ \/ newTask \in EligCandidates /\ existingTasks \in ListsOver(EligExisting)
     \/ newTask \in TimeCandidates /\ existingTasks \in ListsOver(TimeExisting)
  /\ result = Null
  /\ severity = "none"
  /\ pc = "input"
  /\ PageIdle

CallCheckTimeConflicts ==
  /\ pc = "input"
  /\ result' = checkTimeConflicts(newTask, existingTasks)
  /\ severity' = getConflictSeverity(result'.conflicts)
  /\ pc' = "done"
  /\ UNCHANGED <<today, ovArgs, ovResult, newTask, existingTasks>>
  /\ UNCHANGED pageVars
  /\ UNCHANGED coreVars
  /\ UNCHANGED optVars

NextConflict == CallCheckTimeConflicts

SpecConflict == InitConflict /\ [][NextConflict]_vars

----------------------------------------------------------------------------
(* The Index page with its two dialogs *)

MaxSaves == 1

Trim(title) == IF title = " " THEN "" ELSE title

\* values the user types or picks
Titles == { " ", "t" }
Types == { "daily", "once", "flexible" }
Categories == { "personal", "work" }
Frequencies == { "daily", "weekends" }
FlexibleDurations == { "day", "week" }
StartTimes == { T(9, 0) }
Dates == { "", Clock }

Stored(id, type, frequency, date, completed, category, startTime, endTime) ==
  Task(id, FormTitle, type, frequency, completed, startTime, endTime, date, category)

\* collections found in local storage when the page mounts
StoredCollections ==
  { <<>>,
    << Stored(1, "daily", "daily", Undefined, FALSE, "personal", T(9, 0), NoTime) >>,
    << Stored(1, "daily", "daily", Undefined, FALSE, "work", T(9, 0), NoTime),
       Stored(2, "once", Undefined, Clock, FALSE, "personal", T(10, 0), NoTime) >>,
    << Stored(1, "once", Undefined, Undefined, FALSE, "personal", T(9, 0), T(10, 0)),
       Stored(2, "daily", "weekends", Undefined, TRUE, "work", T(9, 0), NoTime) >>,
    << [Stored(1, "flexible", Undefined, Undefined, FALSE, "personal", NoTime, NoTime)
          EXCEPT !.flexibleDuration = "day"],
       Stored(2, "daily", "daily", Undefined, FALSE, "personal", T(9, 30), T(10, 30)) >> }

\* AddTaskDialog: the useEffect that checks for conflicts
AddEffect(f, existing) ==
  IF f.startTime # NoTime /\ f.type \in {"daily", "once"}
  THEN checkTimeConflicts(
         [id |-> 0, title |-> f.title, type |-> f.type, completed |-> FALSE,
          category |-> f.category,
          frequency |-> IF f.type = "daily" THEN f.frequency ELSE Undefined,
          startTime |-> f.startTime, endTime |-> f.endTime,
          date |-> IF f.type = "once" THEN f.date ELSE Undefined,
          flexibleDuration |-> Undefined, suggestedTime |-> NoTime],
         existing)
  ELSE Null

\* variant: the edited task stays in the comparison set
EditEffect_withSelf(f, existing, task) ==
  IF f.startTime # NoTime /\ f.type \in {"daily", "once"} /\ task # NoTask
  THEN LET updatedTask ==
             [task EXCEPT !.title = f.title, !.type = f.type, !.category = f.category,
                          !.frequency = IF f.type = "daily" THEN f.frequency ELSE Undefined,
                          !.startTime = f.startTime, !.endTime = f.endTime,
                          !.date = IF f.type = "once" THEN f.date ELSE Undefined]
       IN checkTimeConflicts(updatedTask, existing)
  ELSE Null

\* EditTaskDialog: the useEffect that checks for conflicts
EditEffect(f, existing, task) ==
  IF f.startTime # NoTime /\ f.type \in {"daily", "once"} /\ task # NoTask
  THEN LET updatedTask ==
             [task EXCEPT !.title = f.title, !.type = f.type, !.category = f.category,
                          !.frequency = IF f.type = "daily" THEN f.frequency ELSE Undefined,
                          !.startTime = f.startTime, !.endTime = f.endTime,
                          !.date = IF f.type = "once" THEN f.date ELSE Undefined]
           otherTasks == SelectSeq(existing, LAMBDA t : t.id # task.id)
       IN checkTimeConflicts(updatedTask, otherTasks)
  ELSE Null

\* EditTaskDialog: the useEffect that loads the form from the task
LoadForm(task) ==
  [title |-> task.title, type |-> task.type,
   frequency |-> IF task.frequency = Undefined THEN "daily" ELSE task.frequency,
   startTime |-> task.startTime, endTime |-> task.endTime,
   date |-> IF task.date = Undefined THEN "" ELSE task.date,
   category |-> IF task.category = Undefined THEN "personal" ELSE task.category,
   flexibleDuration |-> IF task.flexibleDuration = Undefined THEN "day"
                        ELSE task.flexibleDuration]

\* the browser's constraint validation of the form (required title; while the
\* time inputs are rendered, required start time and end time not below the
\* min attribute) lets the submit event through
FormValid(f) ==
  /\ f.title # ""
  /\ f.type \in {"daily", "once"} =>
       /\ f.startTime # NoTime
       /\ f.endTime # NoTime => timeToMinutes(f.endTime) >= timeToMinutes(f.startTime)

\* Index.addTask
addTask(collection, task, now) == Append(collection, [task EXCEPT !.id = now])

\* Index.saveEditedTask
saveEditedTask(collection, updatedTask) ==
  [i \in 1..Len(collection) |->
     IF collection[i].id = updatedTask.id THEN updatedTask ELSE collection[i]]

\* AddTaskDialog.handleSubmit: the task handed to onAddTask
AddNewTask(f) ==
  [id |-> 0, title |-> Trim(f.title), type |-> f.type, completed |-> FALSE,
   category |-> f.category,
   frequency |-> IF f.type = "daily" THEN f.frequency ELSE Undefined,
   flexibleDuration |-> IF f.type = "flexible" THEN f.flexibleDuration ELSE Undefined,
   startTime |-> f.startTime,
   endTime |-> f.endTime,
   date |-> IF f.date # "" /\ f.type = "once" THEN f.date ELSE Undefined,
   suggestedTime |-> NoTime]

\* EditTaskDialog.handleSubmit: the task handed to onSave
EditUpdatedTask(f, task) ==
  [task EXCEPT
     !.title = Trim(f.title), !.type = f.type, !.category = f.category,
     !.frequency = IF f.type = "daily" THEN f.frequency ELSE Undefined,
     !.flexibleDuration = IF f.type = "flexible" THEN f.flexibleDuration ELSE Undefined,
     !.startTime = IF f.type \notin {"daily", "once"} THEN NoTime
                   ELSE IF f.startTime # NoTime THEN f.startTime ELSE task.startTime,
     !.endTime = IF f.type \notin {"daily", "once"} THEN NoTime
                 ELSE IF f.endTime # NoTime THEN f.endTime ELSE task.endTime,
     !.date = IF f.type # "once" THEN Undefined
              ELSE IF f.date # "" THEN f.date ELSE task.date]

\* the clock has moved on by the time the user makes the next submit
Later(now) == now + 1

InitPage ==
  /\ today = Clock
  /\ ovArgs = NoArgs
  /\ ovResult = FALSE
  /\ newTask = NoTask
  /\ existingTasks = <<>>
  /\ result = Null
  /\ severity = "none"
  /\ pc = "page"
  /\ tasks \in StoredCollections
  /\ clock = Len(tasks) + 1
  /\ editingTask = NoTask
  /\ dialog = "none"
  /\ form = EmptyForm
  /\ conflictResult = Null
  /\ lastSubmit = NoSubmit
  /\ saves = 0
  /\ lastPass = NoPass
  /\ passes = 0
  /\ indexPage = "current"
  /\ CoreIdle

\* AddTaskDialog: the trigger button opens the dialog
OpenAdd ==
  /\ dialog = "none"
  /\ saves < MaxSaves
  /\ dialog' = "add"
  /\ conflictResult' = AddEffect(form, tasks)
  /\ lastSubmit' = NoSubmit
  /\ UNCHANGED <<today, tasks, clock, editingTask, form, saves>>
  /\ UNCHANGED callVars
  /\ UNCHANGED coreVars
  /\ UNCHANGED optVars

\* a field setter of the add dialog, followed by the conflict effect
AddSet(f) ==
  /\ dialog = "add"
  /\ form' = f
  /\ conflictResult' = AddEffect(f, tasks)
  /\ lastSubmit' = NoSubmit
  /\ UNCHANGED <<today, tasks, clock, editingTask, dialog, saves>>
  /\ UNCHANGED callVars
  /\ UNCHANGED coreVars
  /\ UNCHANGED optVars

AddSetTitle == \E v \in Titles : AddSet([form EXCEPT !.title = v])

AddSetType == \E v \in Types : AddSet([form EXCEPT !.type = v])

AddSetCategory == \E v \in Categories : AddSet([form EXCEPT !.category = v])

AddSetFrequency ==
  /\ form.type = "daily"
  /\ \E v \in Frequencies : AddSet([form EXCEPT !.frequency = v])

AddSetFlexibleDuration ==
  /\ form.type = "flexible"
  /\ \E v \in FlexibleDurations : AddSet([form EXCEPT !.flexibleDuration = v])

AddSetStartTime ==
  /\ form.type \in {"daily", "once"}
  /\ \E v \in StartTimes : AddSet([form EXCEPT !.startTime = v])

AddSetDate ==
  /\ form.type = "once"
  /\ \E v \in Dates : AddSet([form EXCEPT !.date = v])

\* AddTaskDialog.handleSuggestedTime
AddHandleSuggestedTime ==
  /\ conflictResult.hasConflicts
  /\ conflictResult.suggestedTime # NoTime
  /\ AddSet([form EXCEPT !.startTime = conflictResult.suggestedTime])

\* variant: the severity gate is missing
AddHandleSubmit_noGate ==
  /\ dialog = "add"
  /\ FormValid(form)
  /\ IF Trim(form.title) = ""
     THEN /\ lastSubmit' = Submitted("add", conflictResult, "ignored")
          /\ UNCHANGED <<tasks, clock, dialog, form, conflictResult, saves>>
     ELSE /\ tasks' = addTask(tasks, AddNewTask(form), clock)
          /\ clock' = Later(clock)
          /\ form' = EmptyForm
          /\ conflictResult' = Null
          /\ dialog' = "none"
          /\ lastSubmit' = Submitted("add", conflictResult, "added")
          /\ saves' = saves + 1
  /\ UNCHANGED <<today, editingTask>>
  /\ UNCHANGED callVars
  /\ UNCHANGED coreVars
  /\ UNCHANGED optVars

\* AddTaskDialog.handleSubmit
AddHandleSubmit ==
  /\ dialog = "add"
  /\ FormValid(form)
  /\ IF Trim(form.title) = ""
     THEN /\ lastSubmit' = Submitted("add", conflictResult, "ignored")
          /\ UNCHANGED <<tasks, clock, dialog, form, conflictResult, saves>>
     ELSE IF conflictResult.hasConflicts
             /\ getConflictSeverity(conflictResult.conflicts) = "error"
     THEN /\ lastSubmit' = Submitted("add", conflictResult, "blocked")
          /\ UNCHANGED <<tasks, clock, dialog, form, conflictResult, saves>>
     ELSE /\ tasks' = addTask(tasks, AddNewTask(form), clock)
          /\ clock' = Later(clock)
          /\ form' = EmptyForm
          /\ conflictResult' = Null
          /\ dialog' = "none"
          /\ lastSubmit' = Submitted("add", conflictResult, "added")
          /\ saves' = saves + 1
  /\ UNCHANGED <<today, editingTask>>
  /\ UNCHANGED callVars
  /\ UNCHANGED coreVars
  /\ UNCHANGED optVars

\* Index.editTask, then the edit dialog's two effects
EditTask ==
  /\ dialog = "none"
  /\ saves < MaxSaves
  /\ \E i \in 1..Len(tasks) :
       /\ editingTask' = tasks[i]
       /\ form' = LoadForm(tasks[i])
       /\ conflictResult' = EditEffect(LoadForm(tasks[i]), tasks, tasks[i])
  /\ dialog' = "edit"
  /\ lastSubmit' = NoSubmit
  /\ UNCHANGED <<today, tasks, clock, saves>>
  /\ UNCHANGED callVars
  /\ UNCHANGED coreVars
  /\ UNCHANGED optVars

\* a field setter of the edit dialog, followed by the conflict effect
EditSet(f) ==
  /\ dialog = "edit"
  /\ form' = f
  /\ conflictResult' = EditEffect(f, tasks, editingTask)
  /\ lastSubmit' = NoSubmit
  /\ UNCHANGED <<today, tasks, clock, editingTask, dialog, saves>>
  /\ UNCHANGED callVars
  /\ UNCHANGED coreVars
  /\ UNCHANGED optVars

EditSetTitle == \E v \in Titles : EditSet([form EXCEPT !.title = v])

EditSetType == \E v \in Types : EditSet([form EXCEPT !.type = v])

EditSetCategory == \E v \in Categories : EditSet([form EXCEPT !.category = v])

EditSetFrequency ==
  /\ form.type = "daily"
  /\ \E v \in Frequencies : EditSet([form EXCEPT !.frequency = v])

EditSetFlexibleDuration ==
  /\ form.type = "flexible"
  /\ \E v \in FlexibleDurations : EditSet([form EXCEPT !.flexibleDuration = v])

EditSetStartTime ==
  /\ form.type \in {"daily", "once"}
  /\ \E v \in StartTimes : EditSet([form EXCEPT !.startTime = v])

EditSetDate ==
  /\ form.type = "once"
  /\ \E v \in Dates : EditSet([form EXCEPT !.date = v])

\* EditTaskDialog.handleSuggestedTime
EditHandleSuggestedTime ==
  /\ conflictResult.hasConflicts
  /\ conflictResult.suggestedTime # NoTime
  /\ EditSet([form EXCEPT !.startTime = conflictResult.suggestedTime])

\* EditTaskDialog.handleSubmit, with Index.saveEditedTask as onSave
EditHandleSubmit ==
  /\ dialog = "edit"
  /\ FormValid(form)
  /\ IF Trim(form.title) = "" \/ editingTask = NoTask
     THEN /\ lastSubmit' = Submitted("edit", conflictResult, "ignored")
          /\ UNCHANGED <<tasks, dialog, conflictResult, saves>>
     ELSE IF conflictResult.hasConflicts
             /\ getConflictSeverity(conflictResult.conflicts) = "error"
     THEN /\ lastSubmit' = Submitted("edit", conflictResult, "blocked")
          /\ UNCHANGED <<tasks, dialog, conflictResult, saves>>
     ELSE /\ tasks' = saveEditedTask(tasks, EditUpdatedTask(form, editingTask))
          /\ conflictResult' = EditEffect(form, tasks', editingTask)
          /\ dialog' = "none"
          /\ lastSubmit' = Submitted("edit", conflictResult, "saved")
          /\ saves' = saves + 1
  /\ UNCHANGED <<today, clock, editingTask, form>>
  /\ UNCHANGED callVars
  /\ UNCHANGED coreVars
  /\ UNCHANGED optVars

Next ==
  \/ OpenAdd
  \/ AddSetTitle
  \/ AddSetType
  \/ AddSetCategory
  \/ AddSetFrequency
  \/ AddSetFlexibleDuration
  \/ AddSetStartTime
  \/ AddSetDate
  \/ AddHandleSuggestedTime
  \/ AddHandleSubmit
  \/ EditTask
  \/ EditSetTitle
  \/ EditSetType
  \/ EditSetCategory
  \/ EditSetFrequency
  \/ EditSetFlexibleDuration
  \/ EditSetStartTime
  \/ EditSetDate
  \/ EditHandleSuggestedTime
  \/ EditHandleSubmit

Spec == InitPage /\ [][Next]_vars

----------------------------------------------------------------------------
(* The Index page's schedule optimizer (src/unnamed/part_000,              *)
(* optimizeSchedule) and the earlier optimizer of src/src/pages/Index.tsx. *)
(* An occupied interval or a free slot is a record of two minute counts,   *)
(* start and end; a suggestion is a record of a task id and an "HH:MM".    *)

SLEEP_START_1 == 23 * 60
SLEEP_END_1 == 24 * 60
SLEEP_START_2 == 0
SLEEP_END_2 == 6 * 60
MORNING_START == 6 * 60
MORNING_END == 7 * 60
WORK_START == 7 * 60
WORK_END == 23 * 60
SlotLength == 60

\* Index: helper timeToMinutes
pageTimeToMinutes(t) == t[1] * 60 + t[2]

\* Index: helper minutesToTime
pageMinutesToTime(min) == <<min \div 60, min % 60>>

\* Array.prototype.sort with (a, b) => a.start - b.start: one element put in place
RECURSIVE insertByStart(_, _)
insertByStart(x, sorted) ==
  IF sorted = <<>> THEN <<x>>
  ELSE IF x.start < Head(sorted).start THEN <<x>> \o sorted
  ELSE <<Head(sorted)>> \o insertByStart(x, Tail(sorted))

\* Array.prototype.sort with (a, b) => a.start - b.start: stable, ascending by start
RECURSIVE sortByStart(_)
sortByStart(seq) ==
  IF seq = <<>> THEN <<>>
  ELSE insertByStart(seq[Len(seq)], sortByStart(SubSeq(seq, 1, Len(seq) - 1)))

\* variant: completed flexible tasks are optimized too
flexibleTasks_withCompleted(collection) ==
  SelectSeq(collection, LAMBDA task : task.type = "flexible")

flexibleTasks(collection) ==
  SelectSeq(collection, LAMBDA task : task.type = "flexible" /\ ~task.completed)

\* variant: a suggestion from an earlier pass occupies its hour
scheduledReal_withSuggested(collection) ==
  sortByStart(
    [ i \in 1..Len(SelectSeq(collection, LAMBDA task :
                     (task.startTime # NoTime \/ task.suggestedTime # NoTime) /\ ~task.completed)) |->
        LET task == SelectSeq(collection, LAMBDA t :
                     (t.startTime # NoTime \/ t.suggestedTime # NoTime) /\ ~t.completed)[i]
            from == IF task.startTime # NoTime THEN task.startTime ELSE task.suggestedTime
        IN [start |-> pageTimeToMinutes(from),
            end |-> IF task.endTime # NoTime THEN pageTimeToMinutes(task.endTime)
                    ELSE pageTimeToMinutes(from) + SlotLength] ])

\* scheduledTasks as first built: the real tasks' intervals, sorted by start
scheduledReal(collection) ==
  sortByStart(
    [ i \in 1..Len(SelectSeq(collection, LAMBDA task : task.startTime # NoTime /\ ~task.completed)) |->
        LET task == SelectSeq(collection, LAMBDA t : t.startTime # NoTime /\ ~t.completed)[i]
        IN [start |-> pageTimeToMinutes(task.startTime),
            end |-> IF task.endTime # NoTime THEN pageTimeToMinutes(task.endTime)
                    ELSE pageTimeToMinutes(task.startTime) + SlotLength] ])

\* variant: closed intervals (<= in place of <)
hasTaskIn_closed(scheduled, start, end) ==
  \E i \in 1..Len(scheduled) : scheduled[i].start <= end /\ scheduled[i].end >= start

hasTaskIn(scheduled, start, end) ==
  \E i \in 1..Len(scheduled) : scheduled[i].start < end /\ scheduled[i].end > start

\* if (!hasTaskIn(start, end)) scheduledTasks.push({ start, end })
pushUnlessTaskIn(scheduled, start, end) ==
  IF ~hasTaskIn(scheduled, start, end)
  THEN Append(scheduled, [start |-> start, end |-> end])
  ELSE scheduled

\* scheduledTasks as the gap loop reads it
scheduledTasks(collection) ==
  sortByStart(
    pushUnlessTaskIn(
      pushUnlessTaskIn(
        pushUnlessTaskIn(scheduledReal(collection), SLEEP_START_1, SLEEP_END_1),
        SLEEP_START_2, SLEEP_END_2),
      MORNING_START, MORNING_END))

\* variant: lastEnd follows the interval just visited (no Math.max)
RECURSIVE gapLoop_noMax(_, _, _, _)
gapLoop_noMax(i, lastEnd, slots, scheduled) ==
  IF i > Len(scheduled)
  THEN IF WORK_END - lastEnd >= SlotLength
       THEN Append(slots, [start |-> lastEnd, end |-> WORK_END])
       ELSE slots
  ELSE LET t == scheduled[i]
           found == IF t.start - lastEnd >= SlotLength
                    THEN Append(slots, [start |-> lastEnd, end |-> t.start])
                    ELSE slots
       IN gapLoop_noMax(i + 1, t.end, found, scheduled)

\* the loop over scheduledTasks that collects the gaps of at least an hour
RECURSIVE gapLoop(_, _, _, _)
gapLoop(i, lastEnd, slots, scheduled) ==
  IF i > Len(scheduled)
  THEN IF WORK_END - lastEnd >= SlotLength
       THEN Append(slots, [start |-> lastEnd, end |-> WORK_END])
       ELSE slots
  ELSE LET t == scheduled[i]
           found == IF t.start - lastEnd >= SlotLength
                    THEN Append(slots, [start |-> lastEnd, end |-> t.start])
                    ELSE slots
           max == IF lastEnd >= t.end THEN lastEnd ELSE t.end
       IN gapLoop(i + 1, max, found, scheduled)

availableSlots(collection) == gapLoop(1, WORK_START, <<>>, scheduledTasks(collection))

\* while (slotIdx < availableSlots.length && slot too short) slotIdx++
RECURSIVE skipShort(_, _)
skipShort(slotIdx, slots) ==
  IF slotIdx <= Len(slots) /\ slots[slotIdx].end - slots[slotIdx].start < SlotLength
  THEN skipShort(slotIdx + 1, slots)
  ELSE slotIdx

\* variant: an assignment does not consume its hour of the slot
RECURSIVE assignLoop_noConsume(_, _, _, _, _)
assignLoop_noConsume(i, slotIdx, slots, found, flexible) ==
  IF i > Len(flexible) THEN found
  ELSE LET idx == skipShort(slotIdx, slots)
       IN IF idx > Len(slots) THEN found
          ELSE assignLoop_noConsume(i + 1, idx, slots,
                 Append(found, [id |-> flexible[i].id,
                                suggestedTime |-> pageMinutesToTime(slots[idx].start)]),
                 flexible)

\* the loop over flexibleTasks that hands out the slots, an hour each
RECURSIVE assignLoop(_, _, _, _, _)
assignLoop(i, slotIdx, slots, found, flexible) ==
  IF i > Len(flexible) THEN found
  ELSE LET idx == skipShort(slotIdx, slots)
       IN IF idx > Len(slots) THEN found
          ELSE assignLoop(i + 1, idx,
                 [slots EXCEPT ![idx].start = @ + SlotLength],
                 Append(found, [id |-> flexible[i].id,
                                suggestedTime |-> pageMinutesToTime(slots[idx].start)]),
                 flexible)

suggestions(collection) ==
  assignLoop(1, 1, availableSlots(collection), <<>>, flexibleTasks(collection))

\* suggestions.find(s => s.id === task.id): the index of the first match, 0 for none
find(found, id) ==
  IF \E k \in 1..Len(found) : found[k].id = id
  THEN CHOOSE k \in 1..Len(found) :
         found[k].id = id /\ \A j \in 1..(k - 1) : found[j].id # id
  ELSE 0

\* variant: a task without a slot keeps the suggestion it had
updatedTasks_keepStale(collection, found) ==
  [ i \in 1..Len(collection) |->
      LET task == collection[i]
      IN IF task.type = "flexible" /\ ~task.completed
         THEN IF find(found, task.id) # 0
              THEN [task EXCEPT !.suggestedTime = found[find(found, task.id)].suggestedTime]
              ELSE task
         ELSE task ]

\* variant: completed flexible tasks are rewritten as well
updatedTasks_alsoCompleted(collection, found) ==
  [ i \in 1..Len(collection) |->
      LET task == collection[i]
      IN IF task.type = "flexible"
         THEN IF find(found, task.id) # 0
              THEN [task EXCEPT !.suggestedTime = found[find(found, task.id)].suggestedTime]
              ELSE [task EXCEPT !.suggestedTime = NoTime]
         ELSE task ]

updatedTasks(collection, found) ==
  [ i \in 1..Len(collection) |->
      LET task == collection[i]
      IN IF task.type = "flexible" /\ ~task.completed
         THEN IF find(found, task.id) # 0
              THEN [task EXCEPT !.suggestedTime = found[find(found, task.id)].suggestedTime]
              ELSE [task EXCEPT !.suggestedTime = NoTime]
         ELSE task ]

\* Index.tsx: const hours
hours == <<9, 10, 11, 14, 15, 16, 17>>

\* Index.tsx: flexibleTasks.map(...); draws[i] is Math.floor(Math.random() * hours.length)
\* of the i-th call, counted from 1
randomSuggestions(collection, draws) ==
  [ i \in 1..Len(flexibleTasks(collection)) |->
      [id |-> flexibleTasks(collection)[i].id, suggestedTime |-> <<hours[draws[i]], 0>>] ]

\* Index.tsx: tasks.map(...) writing the suggestions back
updatedTasksRandom(collection, found) ==
  [ i \in 1..Len(collection) |->
      LET task == collection[i]
      IN IF task.type = "flexible" /\ ~task.completed
         THEN IF find(found, task.id) # 0
              THEN [task EXCEPT !.suggestedTime = found[find(found, task.id)].suggestedTime]
              ELSE task
         ELSE task ]

\* Index: toggleTaskComplete
toggleTaskComplete(collection, id) ==
  [ i \in 1..Len(collection) |->
      IF collection[i].id = id
      THEN [collection[i] EXCEPT !.completed = ~collection[i].completed]
      ELSE collection[i] ]

MaxFlexible == 2
MaxPasses == 2

\* a flexible task as stored, with the suggestion an earlier pass may have left
Flexible(completed, suggestedTime) ==
  [Stored(0, "flexible", Undefined, Undefined, completed, "personal", NoTime, NoTime)
     EXCEPT !.flexibleDuration = "day", !.suggestedTime = suggestedTime]

FlexibleStored ==
  { Flexible(FALSE, NoTime), Flexible(FALSE, T(10, 0)), Flexible(TRUE, T(9, 0)) }

DailyAt(completed, startTime, endTime) ==
  Stored(0, "daily", "daily", Undefined, completed, "work", startTime, endTime)

OnceAt(startTime, endTime) ==
  Stored(0, "once", Undefined, Clock, FALSE, "personal", startTime, endTime)

\* the timed tasks found in local storage
TimedStored ==
  { <<>>,
    << DailyAt(FALSE, T(8, 0), T(9, 0)), OnceAt(T(12, 0), T(13, 0)) >>,
    << DailyAt(FALSE, T(7, 0), T(22, 0)) >>,
    << DailyAt(FALSE, T(7, 30), T(22, 30)), OnceAt(T(23, 30), NoTime) >>,
    << DailyAt(FALSE, T(6, 30), T(8, 15)) >>,
    << DailyAt(TRUE, T(7, 0), T(22, 30)) >>,
    << DailyAt(FALSE, T(7, 0), T(23, 0)) >>,
    << DailyAt(FALSE, T(10, 0), NoTime), OnceAt(T(9, 0), T(10, 30)) >>,
    << DailyAt(FALSE, T(7, 0), T(8, 0)), OnceAt(T(8, 30), T(22, 15)) >>,
    << OnceAt(T(5, 0), T(6, 0)), DailyAt(FALSE, T(21, 30), T(23, 0)) >>,
    << DailyAt(FALSE, T(8, 0), T(12, 0)), OnceAt(T(10, 30), T(10, 30)) >> }

FlexibleLists ==
  UNION { [1..n -> FlexibleStored] : n \in 0..MaxFlexible }

\* ids as addTask gives them: distinct, in the order of creation
Numbered(collection) == [ i \in 1..Len(collection) |-> [collection[i] EXCEPT !.id = i] ]

OptimizerCollections ==
  { Numbered(IF timed = <<>> THEN flexible
             ELSE <<Head(timed)>> \o flexible \o Tail(timed)) :
      timed \in TimedStored, flexible \in FlexibleLists }

\* the collections the earlier page is run on
EarlierCollections ==
  { <<>>,
    Numbered(<< Flexible(TRUE, T(9, 0)) >>),
    Numbered(<< DailyAt(FALSE, T(9, 0), T(10, 0)), Flexible(FALSE, NoTime),
                Flexible(FALSE, T(10, 0)) >>) }

Pass(version, before, called, toast, found) ==
  [version |-> version, before |-> before, setTasks |-> called, toast |-> toast,
   suggestions |-> found, after |-> lastPass.version]

InitOptimize ==
  /\ today = Clock
  /\ ovArgs = NoArgs
  /\ ovResult = FALSE
  /\ newTask = NoTask
  /\ existingTasks = <<>>
  /\ result = Null
  /\ severity = "none"
  /\ pc = "page"
  /\ \/ indexPage = "current" /\ tasks \in OptimizerCollections
     \/ indexPage = "earlier" /\ tasks \in EarlierCollections
  /\ clock = Len(tasks) + 1
  /\ editingTask = NoTask
  /\ dialog = "none"
  /\ form = EmptyForm
  /\ conflictResult = Null
  /\ lastSubmit = NoSubmit
  /\ saves = 0
  /\ lastPass = NoPass
  /\ passes = 0
  /\ CoreIdle

\* Index: the checkbox of a task card
ToggleTaskComplete ==
  /\ dialog = "none"
  /\ \E i \in 1..Len(tasks) :
       /\ tasks' = toggleTaskComplete(tasks, tasks[i].id)
       /\ lastOp' = [op |-> "toggleTaskComplete", id |-> tasks[i].id, arg |-> NoTask,
                     before |-> tasks]
  /\ lastPass' = NoPass
  /\ lastSubmit' = NoSubmit
  /\ UNCHANGED <<today, clock, editingTask, dialog, form, conflictResult, saves>>
  /\ UNCHANGED <<passes, indexPage>>
  /\ UNCHANGED <<dayOfWeek, schedule, prim>>
  /\ UNCHANGED callVars

\* Index (src/unnamed/part_000): the optimize button
OptimizeSchedule ==
  /\ indexPage = "current"
  /\ passes < MaxPasses
  /\ passes' = passes + 1
  /\ IF Len(flexibleTasks(tasks)) = 0
     THEN /\ lastPass' = Pass("gap", tasks, FALSE, "No flexible tasks to optimize", <<>>)
          /\ UNCHANGED tasks
     ELSE /\ tasks' = updatedTasks(tasks, suggestions(tasks))
          /\ lastPass' = Pass("gap", tasks, TRUE, "Schedule optimized!", suggestions(tasks))
  /\ UNCHANGED <<today, clock, editingTask, dialog, form, conflictResult, lastSubmit, saves>>
  /\ UNCHANGED indexPage
  /\ lastOp' = NoOp
  /\ UNCHANGED <<dayOfWeek, schedule, prim>>
  /\ UNCHANGED callVars

\* Index (src/src/pages/Index.tsx): the optimize button of the earlier page
OptimizeScheduleRandom ==
  /\ indexPage = "earlier"
  /\ passes < MaxPasses
  /\ passes' = passes + 1
  /\ IF Len(flexibleTasks(tasks)) = 0
     THEN /\ lastPass' = Pass("random", tasks, FALSE, "No flexible tasks to optimize", <<>>)
          /\ UNCHANGED tasks
     ELSE \E draws \in [1..Len(flexibleTasks(tasks)) -> 1..Len(hours)] :
            /\ tasks' = updatedTasksRandom(tasks, randomSuggestions(tasks, draws))
            /\ lastPass' = Pass("random", tasks, TRUE, "Schedule optimized!",
                                randomSuggestions(tasks, draws))
  /\ UNCHANGED <<today, clock, editingTask, dialog, form, conflictResult, lastSubmit, saves>>
  /\ UNCHANGED indexPage
  /\ lastOp' = NoOp
  /\ UNCHANGED <<dayOfWeek, schedule, prim>>
  /\ UNCHANGED callVars

NextOptimize ==
  \/ ToggleTaskComplete
  \/ OptimizeSchedule
  \/ OptimizeScheduleRandom

SpecOptimize == InitOptimize /\ [][NextOptimize]_vars

----------------------------------------------------------------------------
(* The collection operations of the Index page, called directly: addTask,  *)
(* saveEditedTask, toggleTaskComplete, deleteTask and optimizeSchedule.    *)
(* Two calls of addTask may read the same millisecond from the clock.      *)

MaxClock == 2

\* variant: every task with another id is removed
deleteTask_others(collection, id) == SelectSeq(collection, LAMBDA task : task.id = id)

\* Index: deleteTask
deleteTask(collection, id) == SelectSeq(collection, LAMBDA task : task.id # id)

\* Date.now() at the next read: the same millisecond or a later one
Now(now) == { now, Later(now) }

\* the field states the dialogs hand over on submit
SubmittedForms ==
  { [EmptyForm EXCEPT !.title = "t"],
    [EmptyForm EXCEPT !.title = "t", !.type = "daily", !.startTime = T(9, 0),
                      !.category = "work"] }

InitCollection ==
  /\ today = Clock
  /\ ovArgs = NoArgs
  /\ ovResult = FALSE
  /\ newTask = NoTask
  /\ existingTasks = <<>>
  /\ result = Null
  /\ severity = "none"
  /\ pc = "page"
  /\ tasks \in StoredCollections
  /\ clock = Len(tasks) + 1
  /\ editingTask = NoTask
  /\ dialog = "none"
  /\ form = EmptyForm
  /\ conflictResult = Null
  /\ lastSubmit = NoSubmit
  /\ saves = 0
  /\ lastPass = NoPass
  /\ passes = 0
  /\ indexPage = "current"
  /\ CoreIdle

\* Index: addTask(newTask)
AddTask ==
  /\ Len(tasks) < MaxTasks
  /\ clock <= MaxClock
  /\ \E f \in SubmittedForms :
       /\ tasks' = addTask(tasks, AddNewTask(f), clock)
       /\ lastOp' = [op |-> "addTask", id |-> clock, arg |-> AddNewTask(f), before |-> tasks]
  /\ clock' \in Now(clock)
  /\ lastPass' = NoPass
  /\ UNCHANGED <<today, editingTask, dialog, form, conflictResult, lastSubmit, saves>>
  /\ UNCHANGED <<passes, indexPage>>
  /\ UNCHANGED <<dayOfWeek, schedule, prim>>
  /\ UNCHANGED callVars

\* Index: saveEditedTask(updatedTask), with the task the edit dialog builds
SaveEditedTask ==
  /\ \E i \in 1..Len(tasks), f \in SubmittedForms :
       /\ tasks' = saveEditedTask(tasks, EditUpdatedTask(f, tasks[i]))
       /\ lastOp' = [op |-> "saveEditedTask", id |-> tasks[i].id,
                     arg |-> EditUpdatedTask(f, tasks[i]), before |-> tasks]
  /\ lastPass' = NoPass
  /\ UNCHANGED <<today, clock, editingTask, dialog, form, conflictResult, lastSubmit, saves>>
  /\ UNCHANGED <<passes, indexPage>>
  /\ UNCHANGED <<dayOfWeek, schedule, prim>>
  /\ UNCHANGED callVars

\* Index: deleteTask(id), from the delete button of a task card
DeleteTask ==
  /\ dialog = "none"
  /\ \E i \in 1..Len(tasks) :
       /\ tasks' = deleteTask(tasks, tasks[i].id)
       /\ lastOp' = [op |-> "deleteTask", id |-> tasks[i].id, arg |-> NoTask, before |-> tasks]
  /\ lastPass' = NoPass
  /\ lastSubmit' = NoSubmit
  /\ UNCHANGED <<today, clock, editingTask, dialog, form, conflictResult, saves>>
  /\ UNCHANGED <<passes, indexPage>>
  /\ UNCHANGED <<dayOfWeek, schedule, prim>>
  /\ UNCHANGED callVars

NextCollection ==
  \/ AddTask
  \/ SaveEditedTask
  \/ ToggleTaskComplete
  \/ DeleteTask
  \/ OptimizeSchedule

SpecCollection == InitCollection /\ [][NextCollection]_vars

----------------------------------------------------------------------------
(* src/src/components/DailySchedule.tsx: the schedule of the day.  A       *)
(* display time is the tuple of the parts of its template string:          *)
(* <<startTime>>, <<startTime, " - ", endTime>> or <<"Flexible">>.         *)

dayNames == <<"sunday", "monday", "tuesday", "wednesday", "thursday", "friday", "saturday">>

\* variant: a named day shows on every day
shouldShowTaskToday_anyNamedDay(task, day) ==
  IF task.frequency = Undefined \/ task.frequency = "" THEN TRUE
  ELSE IF task.frequency = "daily" THEN TRUE
  ELSE IF task.frequency = "weekdays" THEN day >= 1 /\ day <= 5
  ELSE IF task.frequency = "monday_to_saturday" THEN day >= 1 /\ day <= 6
  ELSE IF task.frequency = "weekends" THEN day = 0 \/ day = 6
  ELSE TRUE

shouldShowTaskToday(task, day) ==
  LET todayName == dayNames[day + 1]
  IN IF task.frequency = Undefined \/ task.frequency = "" THEN TRUE
     ELSE IF task.frequency = "daily" THEN TRUE
     ELSE IF task.frequency = "weekdays" THEN day >= 1 /\ day <= 5
     ELSE IF task.frequency = "monday_to_saturday" THEN day >= 1 /\ day <= 6
     ELSE IF task.frequency = "weekends" THEN day = 0 \/ day = 6
     ELSE IF task.frequency \in { "monday", "tuesday", "wednesday", "thursday", "friday",
                                  "saturday", "sunday" }
          THEN task.frequency = todayName
     ELSE TRUE

\* generateSchedule: the predicate of tasks.filter
isTodaysTask(task, day, date) ==
  IF task.completed THEN FALSE
  ELSE IF task.type = "daily" THEN shouldShowTaskToday(task, day)
  ELSE IF task.type = "once"
       THEN task.date = Undefined \/ task.date = "" \/ task.date = date
  ELSE IF task.type = "flexible" THEN TRUE
  ELSE FALSE

todaysTasks(collection, day, date) ==
  SelectSeq(collection, LAMBDA task : isTodaysTask(task, day, date))

\* the characters of "HH:MM" that are digits, as numbers
digits(time) == <<time[1] \div 10, time[1] % 10, time[2] \div 10, time[2] % 10>>

\* String.prototype.localeCompare on two "HH:MM" strings: negative, zero or positive
localeCompare(a, b) ==
  LET da == digits(a)
      db == digits(b)
  IN IF da = db THEN 0
     ELSE LET k == CHOOSE i \in 1..4 : da[i] # db[i] /\ \A j \in 1..(i - 1) : da[j] = db[j]
          IN IF da[k] < db[k] THEN -1 ELSE 1

\* Array.prototype.sort with the startTime comparator: one element put in place
RECURSIVE insertByStartTime(_, _)
insertByStartTime(x, sorted) ==
  IF sorted = <<>> THEN <<x>>
  ELSE IF localeCompare(x.startTime, Head(sorted).startTime) < 0 THEN <<x>> \o sorted
  ELSE <<Head(sorted)>> \o insertByStartTime(x, Tail(sorted))

\* Array.prototype.sort with the startTime comparator: stable
RECURSIVE sortByStartTime(_)
sortByStartTime(seq) ==
  IF seq = <<>> THEN <<>>
  ELSE insertByStartTime(seq[Len(seq)], sortByStartTime(SubSeq(seq, 1, Len(seq) - 1)))

\* variant: the tasks with a start time are listed unsorted
scheduleScheduled_unsorted(collection, day, date) ==
  SelectSeq(todaysTasks(collection, day, date), LAMBDA task : task.startTime # NoTime)

\* generateSchedule: const scheduledTasks
scheduleScheduled(collection, day, date) ==
  sortByStartTime(
    SelectSeq(todaysTasks(collection, day, date), LAMBDA task : task.startTime # NoTime))

\* generateSchedule: const flexibleTasks
scheduleFlexible(collection, day, date) ==
  SelectSeq(todaysTasks(collection, day, date), LAMBDA task : task.startTime = NoTime)

timeDisplay(task) ==
  IF task.endTime # NoTime THEN <<task.startTime, " - ", task.endTime>> ELSE <<task.startTime>>

generateSchedule(collection, day, date) ==
  [ i \in 1..Len(scheduleScheduled(collection, day, date)) |->
      [time |-> timeDisplay(scheduleScheduled(collection, day, date)[i]),
       task |-> scheduleScheduled(collection, day, date)[i],
       type |-> "scheduled"] ]
  \o
  [ i \in 1..Len(scheduleFlexible(collection, day, date)) |->
      [time |-> <<"Flexible">>,
       task |-> scheduleFlexible(collection, day, date)[i],
       type |-> "flexible"] ]

\* the frequencies of the Task interface
AllFrequencies ==
  { "daily", "weekdays", "monday_to_saturday", "weekends", "monday", "tuesday",
    "wednesday", "thursday", "friday", "saturday", "sunday" }

\* the tasks the schedule is generated from
ScheduleTasks ==
  { Timed("daily", f, Undefined, FALSE, "work", T(9, 0), NoTime) :
      f \in AllFrequencies \cup { Undefined } }
  \cup { Timed("once", Undefined, d, FALSE, "personal", T(10, 0), T(11, 0)) :
           d \in { Undefined, "", Clock, "2025-07-02" } }
  \cup { [Timed("flexible", Undefined, Undefined, FALSE, "personal", NoTime, NoTime)
            EXCEPT !.flexibleDuration = d] : d \in { "day", "week", Undefined } }
  \cup { Timed("flexible", Undefined, Undefined, FALSE, "personal", T(8, 0), NoTime),
         Timed("daily", "daily", Undefined, TRUE, "work", T(7, 0), NoTime),
         Timed("flexible", Undefined, Undefined, TRUE, "personal", NoTime, NoTime),
         Timed("daily", "daily", Undefined, FALSE, "work", T(9, 0), T(9, 30)),
         Timed("daily", "daily", Undefined, FALSE, "family", T(23, 15), NoTime),
         Timed("daily", "daily", Undefined, FALSE, "family", T(10, 0), T(10, 30)) }

Weekdays == 0..6

InitSchedule ==
  /\ today = Clock
  /\ ovArgs = NoArgs
  /\ ovResult = FALSE
  /\ newTask = NoTask
  /\ existingTasks = <<>>
  /\ result = Null
  /\ severity = "none"
  /\ pc = "input"
  /\ tasks \in ListsOver(ScheduleTasks)
  /\ clock = Len(tasks) + 1
  /\ editingTask = NoTask
  /\ dialog = "none"
  /\ form = EmptyForm
  /\ conflictResult = Null
  /\ lastSubmit = NoSubmit
  /\ saves = 0
  /\ lastPass = NoPass
  /\ passes = 0
  /\ indexPage = "current"
  /\ dayOfWeek \in Weekdays
  /\ schedule = <<>>
  /\ prim = NoPrim
  /\ lastOp = NoOp

\* DailySchedule: the render calls generateSchedule(tasks)
CallGenerateSchedule ==
  /\ pc = "input"
  /\ schedule' = generateSchedule(tasks, dayOfWeek, today)
  /\ pc' = "done"
  /\ UNCHANGED <<today, ovArgs, ovResult, newTask, existingTasks, result, severity>>
  /\ UNCHANGED <<dayOfWeek, prim, lastOp>>
  /\ UNCHANGED pageVars
  /\ UNCHANGED optVars

NextSchedule == CallGenerateSchedule

SpecSchedule == InitSchedule /\ [][NextSchedule]_vars

----------------------------------------------------------------------------
(* The time primitives on text (src/src/lib/conflictDetection.ts and the   *)
(* helpers of the Index page).  A string is the sequence of its            *)
(* characters, each a one-character string.                                *)

MaxMinutes == 1500

\* String.prototype.split(':'): the parts between the colons
RECURSIVE split(_)
split(str) ==
  IF \A i \in 1..Len(str) : str[i] # ":" THEN <<str>>
  ELSE LET k == CHOOSE i \in 1..Len(str) : str[i] = ":" /\ \A j \in 1..(i - 1) : str[j] # ":"
       IN <<SubSeq(str, 1, k - 1)>> \o split(SubSeq(str, k + 1, Len(str)))

\* the decimal digits, the digit of n at place n + 1
DigitChars == <<"0", "1", "2", "3", "4", "5", "6", "7", "8", "9">>

DigitValue(char) == CHOOSE n \in 0..9 : DigitChars[n + 1] = char

\* Number(string) of a string of decimal digits
RECURSIVE Number(_)
Number(str) ==
  IF str = <<>> THEN 0
  ELSE 10 * Number(SubSeq(str, 1, Len(str) - 1)) + DigitValue(str[Len(str)])

\* Number.prototype.toString() of a non-negative integer
RECURSIVE toString(_)
toString(n) ==
  IF n < 10 THEN <<DigitChars[n + 1]>> ELSE toString(n \div 10) \o <<DigitChars[(n % 10) + 1]>>

\* String.prototype.padStart(2, '0')
padStart(str) == IF Len(str) < 2 THEN [i \in 1..(2 - Len(str)) |-> "0"] \o str ELSE str

\* conflictDetection.ts: timeToMinutes, on text
timeToMinutesText(time) ==
  LET hoursPart == Number(split(time)[1])
      minutesPart == Number(split(time)[2])
  IN hoursPart * 60 + minutesPart

\* variant: the hour wraps at 24
minutesToTimeText_wrapped(minutes) ==
  padStart(toString((minutes \div 60) % 24)) \o <<":">> \o padStart(toString(minutes % 60))

\* conflictDetection.ts: minutesToTime, on text
minutesToTimeText(minutes) ==
  LET hoursPart == minutes \div 60
      mins == minutes % 60
  IN padStart(toString(hoursPart)) \o <<":">> \o padStart(toString(mins))

\* Index: helper timeToMinutes, on text
pageTimeToMinutesText(t) ==
  LET h == Number(split(t)[1])
      m == Number(split(t)[2])
  IN h * 60 + m

\* Index: helper minutesToTime, on text
pageMinutesToTimeText(min) ==
  LET h == padStart(toString(min \div 60))
      m == padStart(toString(min % 60))
  IN h \o <<":">> \o m

\* the text of the "HH:MM" string that the pair <<HH, MM>> stands for
Text(time) == padStart(toString(time[1])) \o <<":">> \o padStart(toString(time[2]))

\* the zero-padded strings 00:00 .. 23:59
ValidTimes == { Text(T(h, m)) : h \in 0..23, m \in 0..59 }

\* minute counts: up to MaxMinutes, and one with a three-digit hour
MinuteCounts == 0..MaxMinutes \cup { 100 * 60 + 5 }

InitTime ==
  /\ today = Clock
  /\ ovArgs = NoArgs
  /\ ovResult = FALSE
  /\ newTask = NoTask
  /\ existingTasks = <<>>
  /\ result = Null
  /\ severity = "none"
  /\ pc = "input"
  /\ tasks = <<>>
  /\ clock = 1
  /\ editingTask = NoTask
  /\ dialog = "none"
  /\ form = EmptyForm
  /\ conflictResult = Null
  /\ lastSubmit = NoSubmit
  /\ saves = 0
  /\ lastPass = NoPass
  /\ passes = 0
  /\ indexPage = "current"
  /\ dayOfWeek = ClockDay
  /\ schedule = <<>>
  /\ lastOp = NoOp
  /\ \/ \E t \in ValidTimes :
          prim = [impl |-> "none", kind |-> "time", time |-> t, minutes |-> 0, back |-> <<>>]
     \/ \E m \in MinuteCounts :
          prim = [impl |-> "none", kind |-> "minutes", time |-> <<>>, minutes |-> m, back |-> 0]

\* conflictDetection.ts: one primitive applied to the argument, the other to its result
CallTimePrimitives ==
  /\ pc = "input"
  /\ IF prim.kind = "time"
     THEN prim' = [prim EXCEPT !.impl = "conflictDetection",
                               !.minutes = timeToMinutesText(prim.time),
                               !.back = minutesToTimeText(timeToMinutesText(prim.time))]
     ELSE prim' = [prim EXCEPT !.impl = "conflictDetection",
                               !.time = minutesToTimeText(prim.minutes),
                               !.back = timeToMinutesText(minutesToTimeText(prim.minutes))]
  /\ pc' = "done"
  /\ UNCHANGED <<today, ovArgs, ovResult, newTask, existingTasks, result, severity>>
  /\ UNCHANGED <<dayOfWeek, schedule, lastOp>>
  /\ UNCHANGED pageVars
  /\ UNCHANGED optVars

\* Index: the same with the page's helpers
CallPageTimePrimitives ==
  /\ pc = "input"
  /\ IF prim.kind = "time"
     THEN prim' = [prim EXCEPT !.impl = "Index",
                               !.minutes = pageTimeToMinutesText(prim.time),
                               !.back = pageMinutesToTimeText(pageTimeToMinutesText(prim.time))]
     ELSE prim' = [prim EXCEPT !.impl = "Index",
                               !.time = pageMinutesToTimeText(prim.minutes),
                               !.back = pageTimeToMinutesText(pageMinutesToTimeText(prim.minutes))]
  /\ pc' = "done"
  /\ UNCHANGED <<today, ovArgs, ovResult, newTask, existingTasks, result, severity>>
  /\ UNCHANGED <<dayOfWeek, schedule, lastOp>>
  /\ UNCHANGED pageVars
  /\ UNCHANGED optVars

NextTime ==
  \/ CallTimePrimitives
  \/ CallPageTimePrimitives

SpecTime == InitTime /\ [][NextTime]_vars

----------------------------------------------------------------------------
(* The page with its two dialogs, the checkbox and the delete button *)

NextPlanner ==
  \/ Next
  \/ ToggleTaskComplete
  \/ DeleteTask

SpecPlanner == InitPage /\ [][NextPlanner]_vars

----------------------------------------------------------------------------
(* The three core operations on sparse input: tasks whose optional fields are
   absent, and empty collections *)

\* candidates: without startTime, without endTime, with both
SparseCandidates ==
  { Daily("work", NoTime, NoTime),
    Daily("work", T(9, 0), NoTime),
    Daily("work", T(9, 30), T(10, 30)) }

\* existing tasks: without startTime, without endTime, with both
SparseExisting ==
  { Daily("work", NoTime, NoTime),
    Daily("personal", T(9, 0), NoTime),
    Daily("work", T(10, 0), T(11, 0)),
    Daily("personal", T(8, 0), T(9, 0)) }

InitCore ==
  /\ today = Clock
  /\ ovArgs = NoArgs
  /\ ovResult = FALSE
  /\ newTask \in SparseCandidates
  /\ existingTasks \in ListsOver(SparseExisting)
  /\ result = Null
  /\ severity = "none"
  /\ pc = "input"
  /\ tasks \in StoredCollections
  /\ clock = Len(tasks) + 1
  /\ editingTask = NoTask
  /\ dialog = "none"
  /\ form = EmptyForm
  /\ conflictResult = Null
  /\ lastSubmit = NoSubmit
  /\ saves = 0
  /\ lastPass = NoPass
  /\ passes = 0
  /\ indexPage = "current"
  /\ dayOfWeek \in Weekdays
  /\ schedule = <<>>
  /\ prim = NoPrim
  /\ lastOp = NoOp

NextCore ==
  \/ CallCheckTimeConflicts
  \/ CallGenerateSchedule
  \/ OptimizeSchedule

SpecCore == InitCore /\ [][NextCore]_vars

----------------------------------------------------------------------------
(* The conflict rules as the specification words them, on minutes *)

Minutes(t) == 60 * t[1] + t[2]

HHMM(n) == <<n \div 60, n % 60>>

EndMinutes(start, end) == IF end = NoTime THEN Minutes(start) + 60 ELSE Minutes(end)

\* half-open intervals [s1, e1) and [s2, e2) intersect
Intersect(s1, e1, s2, e2) == s1 < e2 /\ s2 < e1

SameDayRule(a, b) ==
  \/ a.type = "daily" /\ b.type = "daily" /\ a.frequency = b.frequency
  \/ a.type = "once" /\ b.type = "once" /\ a.date = b.date
  \/ a.type = "daily" /\ b.type = "once" /\ b.date = today
  \/ a.type = "once" /\ b.type = "daily" /\ a.date = today

Eligible(a, b) ==
  /\ ~a.completed /\ ~b.completed
  /\ a.type # "flexible" /\ b.type # "flexible"
  /\ SameDayRule(a, b)

\* positions of the existing tasks the candidate collides with
Colliding ==
  { i \in 1..Len(existingTasks) :
      /\ newTask.startTime # NoTime
      /\ Eligible(newTask, existingTasks[i])
      /\ existingTasks[i].startTime # NoTime
      /\ Intersect(Minutes(newTask.startTime),
                   EndMinutes(newTask.startTime, newTask.endTime),
                   Minutes(existingTasks[i].startTime),
                   EndMinutes(existingTasks[i].startTime, existingTasks[i].endTime)) }

\* the existing task at position i is the conflictingTask of some entry
Reported(i) ==
  \E k \in 1..Len(result.conflicts) : result.conflicts[k].conflictingTask = existingTasks[i]

\* both tasks are timed, not completed, and their intervals intersect
TimedOverlap(a, b) ==
  /\ ~a.completed /\ ~b.completed
  /\ a.startTime # NoTime /\ b.startTime # NoTime
  /\ Intersect(Minutes(a.startTime), EndMinutes(a.startTime, a.endTime),
               Minutes(b.startTime), EndMinutes(b.startTime, b.endTime))

\* probe k: the 60-minute interval at original + 30k meets no eligible timed task
FreeProbe(k) ==
  LET s == Minutes(newTask.startTime) + 30 * k
  IN \A i \in 1..Len(existingTasks) :
       ~ /\ Eligible(newTask, existingTasks[i])
         /\ existingTasks[i].startTime # NoTime
         /\ Intersect(s, s + 60, Minutes(existingTasks[i].startTime),
                      EndMinutes(existingTasks[i].startTime, existingTasks[i].endTime))

Probes == 0..23

FirstFreeProbe(k) == FreeProbe(k) /\ \A j \in 0..(k - 1) : ~FreeProbe(j)

----------------------------------------------------------------------------
(* Claims on doTimesOverlap *)

\* C1: doTimesOverlap is true exactly when start1 < e2 and start2 < e1 in
\* minutes (e = the given end, or start + 60 without one); swapping the two
\* intervals gives the same result; intervals that only touch never overlap.
C1_OverlapHalfOpen ==
  pc = "done" =>
    LET s1 == Minutes(ovArgs.start1)
        e1 == EndMinutes(ovArgs.start1, ovArgs.end1)
        s2 == Minutes(ovArgs.start2)
        e2 == EndMinutes(ovArgs.start2, ovArgs.end2)
    IN /\ ovResult = (s1 < e2 /\ s2 < e1)
       /\ ovResult = doTimesOverlap(ovArgs.start2, ovArgs.end2, ovArgs.start1, ovArgs.end1)
       /\ (e1 = s2 \/ e2 = s1) => ~ovResult

\* 09:00-10:00 against 10:00-11:00 (the second by the default duration)
C1_Witness ==
  /\ pc = "done"
  /\ ovArgs = [start1 |-> T(9, 0), end1 |-> T(10, 0), start2 |-> T(10, 0), end2 |-> NoTime]
  /\ ~ovResult

----------------------------------------------------------------------------
(* Claims on checkTimeConflicts and getConflictSeverity *)

\* C2: no conflict entry ever names a flexible task, and a flexible candidate
\* gets hasConflicts = false with an empty list, whatever fields it carries.
C2_FlexibleNeverConflicts ==
  pc = "done" =>
    /\ \A k \in 1..Len(result.conflicts) :
         result.conflicts[k].conflictingTask.type # "flexible"
    /\ newTask.type = "flexible" => (~result.hasConflicts /\ result.conflicts = <<>>)

\* a flexible candidate carrying 09:00-10:00 next to a live timed task at 09:00
C2_Witness ==
  /\ pc = "done"
  /\ newTask.type = "flexible"
  /\ newTask.startTime = T(9, 0)
  /\ \E i \in 1..Len(existingTasks) :
       /\ existingTasks[i].type = "daily"
       /\ ~existingTasks[i].completed
       /\ existingTasks[i].startTime = T(9, 0)
  /\ \E i \in 1..Len(existingTasks) :
       existingTasks[i].type = "flexible" /\ existingTasks[i].startTime = T(9, 0)
  /\ ~result.hasConflicts

\* C3: conflicts holds exactly one entry, in input order, per colliding
\* existing task; no completed task appears and a completed candidate gets
\* none; the entry's type is 'category' on equal categories and 'overlap'
\* otherwise; hasConflicts is true exactly when the list is non-empty.
C3_ExactConflictList ==
  pc = "done" =>
    /\ Len(result.conflicts) = Cardinality(Colliding)
    /\ \A k \in 1..Len(result.conflicts) :
         \E i \in Colliding :
           /\ Cardinality({ j \in Colliding : j < i }) = k - 1
           /\ result.conflicts[k].conflictingTask = existingTasks[i]
           /\ result.conflicts[k].conflictType =
                (IF newTask.category = existingTasks[i].category
                 THEN "category" ELSE "overlap")
    /\ \A k \in 1..Len(result.conflicts) : ~result.conflicts[k].conflictingTask.completed
    /\ newTask.completed => result.conflicts = <<>>
    /\ result.hasConflicts = (Len(result.conflicts) > 0)

\* two entries of different type behind a skipped first task
C3_Witness ==
  /\ pc = "done"
  /\ Len(existingTasks) = MaxTasks
  /\ Len(result.conflicts) = 2
  /\ result.conflicts[1].conflictType = "overlap"
  /\ result.conflicts[2].conflictType = "category"
  /\ result.conflicts[1].conflictingTask.id < result.conflicts[2].conflictingTask.id

\* C4: two non-completed daily tasks with overlapping intervals are reported
\* as a conflict exactly when their frequency values are identical.
C4_DailyComparedOnEqualFrequency ==
  pc = "done" =>
    \A i \in 1..Len(existingTasks) :
      ( /\ newTask.type = "daily" /\ existingTasks[i].type = "daily"
        /\ TimedOverlap(newTask, existingTasks[i]) )
      => (Reported(i) <=> newTask.frequency = existingTasks[i].frequency)

\* monday_to_saturday against weekends at the same time: nothing reported
C4_Witness ==
  /\ pc = "done"
  /\ newTask.type = "daily" /\ newTask.frequency = "monday_to_saturday"
  /\ ~newTask.completed
  /\ \E i \in 1..Len(existingTasks) :
       /\ existingTasks[i].type = "daily" /\ existingTasks[i].frequency = "weekends"
       /\ TimedOverlap(newTask, existingTasks[i])
       /\ ~Reported(i)
  /\ \E i \in 1..Len(existingTasks) :
       /\ existingTasks[i].type = "daily"
       /\ existingTasks[i].frequency = "monday_to_saturday"
       /\ TimedOverlap(newTask, existingTasks[i])
       /\ Reported(i)

\* C5: two non-completed once tasks with overlapping intervals are reported
\* exactly when their dates are identical, and a daily and a once task exactly
\* when the once task's date is the current date, in either argument order.
C5_OnceComparedOnDate ==
  pc = "done" =>
    \A i \in 1..Len(existingTasks) :
      TimedOverlap(newTask, existingTasks[i]) =>
        /\ (newTask.type = "once" /\ existingTasks[i].type = "once")
             => (Reported(i) <=> newTask.date = existingTasks[i].date)
        /\ (newTask.type = "daily" /\ existingTasks[i].type = "once")
             => (Reported(i) <=> existingTasks[i].date = today)
        /\ (newTask.type = "once" /\ existingTasks[i].type = "daily")
             => (Reported(i) <=> newTask.date = today)

\* a daily candidate against a once task dated today (reported) and one dated
\* tomorrow (not reported)
C5_Witness ==
  /\ pc = "done"
  /\ newTask.type = "daily"
  /\ \E i, j \in 1..Len(existingTasks) :
       /\ existingTasks[i].type = "once" /\ existingTasks[i].date = today
       /\ TimedOverlap(newTask, existingTasks[i]) /\ Reported(i)
       /\ existingTasks[j].type = "once" /\ existingTasks[j].date # today
       /\ TimedOverlap(newTask, existingTasks[j]) /\ ~Reported(j)

\* C6: severity is 'none' for an empty list, 'error' when some entry is of
\* type 'category', 'warning' otherwise; so it is 'error' exactly when some
\* colliding existing task has the candidate's category.
C6_Severity ==
  pc = "done" =>
    /\ severity = (IF result.conflicts = <<>> THEN "none"
                   ELSE IF \E k \in 1..Len(result.conflicts) :
                             result.conflicts[k].conflictType = "category"
                        THEN "error" ELSE "warning")
    /\ severity = "error" <=>
         \E i \in Colliding : existingTasks[i].category = newTask.category
    /\ severity = "none" <=> Colliding = {}

\* an 'overlap' entry followed or preceded by a 'category' entry: error
C6_Witness ==
  /\ pc = "done"
  /\ severity = "error"
  /\ Len(result.conflicts) = 2
  /\ \E k \in 1..2 : result.conflicts[k].conflictType = "overlap"

\* C7 as stated: with a conflict, suggestedTime is the first of the 24 probes
\* original + 30k whose 60-minute interval is free; without one it is absent.
C7_SuggestionIsFirstFreeProbe ==
  pc = "done" =>
    /\ result.hasConflicts =>
         \E k \in Probes :
           /\ FirstFreeProbe(k)
           /\ result.suggestedTime = HHMM(Minutes(newTask.startTime) + 30 * k)
    /\ ~result.hasConflicts => result.suggestedTime = NoTime

\* C7 amended: with a conflict and a free probe among the 24, suggestedTime is
\* the first free probe; with a conflict and no free probe it is the original
\* start; without a conflict it is absent.
C7_SuggestionFirstFreeOrOriginal ==
  pc = "done" =>
    /\ result.hasConflicts =>
         /\ \A k \in Probes :
              FirstFreeProbe(k) =>
                result.suggestedTime = HHMM(Minutes(newTask.startTime) + 30 * k)
         /\ (\A k \in Probes : ~FreeProbe(k)) => result.suggestedTime = newTask.startTime
    /\ ~result.hasConflicts => result.suggestedTime = NoTime

\* one eligible task at 09:00-10:00, candidate at 09:30: the suggestion is 10:00
C7_Witness ==
  /\ pc = "done"
  /\ Len(existingTasks) = 1
  /\ existingTasks[1].startTime = T(9, 0) /\ existingTasks[1].endTime = T(10, 0)
  /\ newTask.startTime = T(9, 30) /\ newTask.endTime = NoTime
  /\ result.hasConflicts
  /\ result.suggestedTime = T(10, 0)

\* C8: a suggestedTime that differs from the candidate's start is, in
\* minutes, the start plus 30k for some k in 0..23.
C8_SuggestionBound ==
  (pc = "done" /\ result.suggestedTime # NoTime /\ result.suggestedTime # newTask.startTime)
    => \E k \in Probes :
         Minutes(result.suggestedTime) = Minutes(newTask.startTime) + 30 * k

\* a suggestion at least two probes after the start
C8_Witness ==
  /\ pc = "done"
  /\ result.suggestedTime # NoTime
  /\ Minutes(result.suggestedTime) >= Minutes(newTask.startTime) + 60

\* C9: with conflicts, suggestedTime equals the original start if and only if
\* none of the 24 probes is conflict-free, whatever the candidate's own end.
C9_OriginalIffNoFreeProbe ==
  (pc = "done" /\ result.hasConflicts) =>
    (result.suggestedTime = newTask.startTime <=> \A k \in Probes : ~FreeProbe(k))

----------------------------------------------------------------------------
(* Claims on the dialogs *)

\* C10: in both dialogs a submit made while the conflict result has severity
\* 'error' leaves the task collection unchanged (onAddTask / onSave is not
\* called); a submit with severity 'warning' or 'none' and a non-blank title
\* appends the new task (add) or replaces the edited task (edit).
C10_SubmitGatedBySeverity ==
  [][ lastSubmit' # NoSubmit =>
        /\ lastSubmit'.dialog = dialog
        /\ Severity(conflictResult) = "error" =>
             /\ tasks' = tasks
             /\ lastSubmit'.outcome \in {"blocked", "ignored"}
        /\ (Severity(conflictResult) # "error" /\ Trim(form.title) # "" /\ dialog = "add") =>
             /\ lastSubmit'.outcome = "added"
             /\ Len(tasks') = Len(tasks) + 1
             /\ SubSeq(tasks', 1, Len(tasks)) = tasks
             /\ tasks'[Len(tasks')].title = Trim(form.title)
             /\ tasks'[Len(tasks')].type = form.type
             /\ tasks'[Len(tasks')].category = form.category
             /\ ~tasks'[Len(tasks')].completed
        /\ (Severity(conflictResult) # "error" /\ Trim(form.title) # "" /\ dialog = "edit") =>
             /\ lastSubmit'.outcome = "saved"
             /\ Len(tasks') = Len(tasks)
             /\ \A i \in 1..Len(tasks) :
                  IF tasks[i].id = editingTask.id
                  THEN /\ tasks'[i].id = editingTask.id
                       /\ tasks'[i].title = Trim(form.title)
                       /\ tasks'[i].type = form.type
                       /\ tasks'[i].category = form.category
                  ELSE tasks'[i] = tasks[i]
    ]_vars

\* a submit of the add dialog was turned away with severity 'error'
C10_Witness ==
  /\ lastSubmit = [dialog |-> "add", severity |-> "error", outcome |-> "blocked"]
  /\ dialog = "add"
  /\ Trim(form.title) # ""

\* the other cases of C10, each reached
C10_SeenEditBlocked ==
  lastSubmit = [dialog |-> "edit", severity |-> "error", outcome |-> "blocked"]

C10_SeenAddedOnWarning ==
  lastSubmit = [dialog |-> "add", severity |-> "warning", outcome |-> "added"]

C10_SeenSavedOnWarning ==
  lastSubmit = [dialog |-> "edit", severity |-> "warning", outcome |-> "saved"]

C10_SeenAddedOnNone ==
  lastSubmit = [dialog |-> "add", severity |-> "none", outcome |-> "added"]

----------------------------------------------------------------------------
(* The optimizer's rules as the specification words them, on minutes *)

\* the last event was a pass of the current page's optimizer that wrote the collection
GapPassed == lastPass.version = "gap" /\ lastPass.setTasks

\* positions of the tasks of a collection that are flexible and not completed
ActiveFlexible(collection) ==
  { i \in 1..Len(collection) : collection[i].type = "flexible" /\ ~collection[i].completed }

\* the start of the suggestion a task carries, in minutes
Suggested(task) == Minutes(task.suggestedTime)

\* [s, s + 60) lies inside the working window [07:00, 23:00)
InWindow(s) == Minutes(T(7, 0)) <= s /\ s + 60 <= Minutes(T(23, 0))

----------------------------------------------------------------------------
(* C11: every suggestedTime s that a pass of the gap-based optimizer       *)
(* assigns lies inside the working window: 07:00 <= s and s + 60 minutes   *)
(* <= 23:00.                                                               *)

C11_SuggestionInsideWorkingWindow ==
  GapPassed =>
    \A i \in ActiveFlexible(tasks) :
      tasks[i].suggestedTime # NoTime => InWindow(Suggested(tasks[i]))

----------------------------------------------------------------------------
(* C12: the occupied intervals of a pass are exactly one interval          *)
(* [start, end or start + 60) for every non-completed task that carries a  *)
(* startTime, whatever its type, plus each of the three virtual blocks     *)
(* [23:00, 24:00), [00:00, 06:00), [06:00, 07:00) that no such task        *)
(* overlaps under the half-open test.                                      *)

\* positions of the tasks that occupy time: not completed, with a startTime
Occupying(collection) ==
  { i \in 1..Len(collection) : ~collection[i].completed /\ collection[i].startTime # NoTime }

IntervalOf(task) ==
  [start |-> Minutes(task.startTime), end |-> EndMinutes(task.startTime, task.endTime)]

VirtualBlocks ==
  { [start |-> Minutes(T(23, 0)), end |-> Minutes(T(24, 0))],
    [start |-> Minutes(T(0, 0)), end |-> Minutes(T(6, 0))],
    [start |-> Minutes(T(6, 0)), end |-> Minutes(T(7, 0))] }

Overlapped(block, collection) ==
  \E i \in Occupying(collection) :
    Intersect(IntervalOf(collection[i]).start, IntervalOf(collection[i]).end,
              block.start, block.end)

\* how often the interval v is expected among the occupied intervals
ExpectedCount(v, collection) ==
  Cardinality({ i \in Occupying(collection) : IntervalOf(collection[i]) = v })
    + (IF v \in VirtualBlocks /\ ~Overlapped(v, collection) THEN 1 ELSE 0)

----------------------------------------------------------------------------
(* C13: a pass places the first active flexible task at the earliest start *)
(* s >= 07:00 such that [s, s + 60) overlaps no occupied interval and fits *)
(* the working window, and leaves it without a suggestion only when no     *)
(* such free hour exists.                                                  *)

\* [s, s + 60) fits the working window and overlaps no occupied interval
FreeHour(s, collection) ==
  /\ InWindow(s)
  /\ \A i \in Occupying(collection) :
       ~Intersect(s, s + 60, IntervalOf(collection[i]).start, IntervalOf(collection[i]).end)

FreeHours(collection) ==
  { s \in Minutes(T(7, 0))..Minutes(T(23, 0)) : FreeHour(s, collection) }

Least(S) == CHOOSE s \in S : \A r \in S : s <= r

C13_FirstFlexibleEarliestFreeHour ==
  GapPassed =>
    LET first == Least(ActiveFlexible(tasks))
        free == FreeHours(lastPass.before)
    IN IF free # {}
       THEN tasks[first].suggestedTime = HHMM(Least(free))
       ELSE tasks[first].suggestedTime = NoTime

----------------------------------------------------------------------------
(* C14: a pass assigns the active flexible tasks first-fit in list order:  *)
(* the suggested starts are strictly increasing along the list, each       *)
(* assignment takes 60 minutes from the start of the first slot that still *)
(* has at least 60 minutes, and the tasks that receive a suggestion form a *)
(* prefix of the active flexible list.                                     *)

\* the number of whole hours in a slot
HoursIn(slot) == (slot.end - slot.start) \div 60

\* the number of whole hours in the first n slots
RECURSIVE HoursUpTo(_, _)
HoursUpTo(n, slots) == IF n = 0 THEN 0 ELSE HoursUpTo(n - 1, slots) + HoursIn(slots[n])

\* the start of the k-th hour handed out, first slot first
KthHour(k, slots) ==
  LET n == CHOOSE m \in 1..Len(slots) : HoursUpTo(m - 1, slots) < k /\ k <= HoursUpTo(m, slots)
  IN slots[n].start + 60 * (k - 1 - HoursUpTo(n - 1, slots))

\* the place of position i among the active flexible tasks, counted from 1
Rank(i, collection) == Cardinality({ j \in ActiveFlexible(collection) : j <= i })

C14_FirstFitInListOrder ==
  GapPassed =>
    LET slots == availableSlots(lastPass.before)
        active == ActiveFlexible(tasks)
        served == { i \in active : tasks[i].suggestedTime # NoTime }
    IN /\ \A i \in active :
            IF Rank(i, tasks) <= HoursUpTo(Len(slots), slots)
            THEN tasks[i].suggestedTime = HHMM(KthHour(Rank(i, tasks), slots))
            ELSE tasks[i].suggestedTime = NoTime
       /\ \A i, j \in served : i < j => Suggested(tasks[i]) < Suggested(tasks[j])
       /\ \A i \in served : \A j \in active : j < i => j \in served

\* two active flexible tasks served from different slots: the first slot had one hour
C14_Witness ==
  /\ GapPassed
  /\ \E i, j \in ActiveFlexible(tasks) :
       /\ i < j
       /\ tasks[i].suggestedTime # NoTime
       /\ tasks[j].suggestedTime # NoTime
       /\ Suggested(tasks[j]) > Suggested(tasks[i]) + 60

\* the hours ran out: an active flexible task is served and a later one is not
C14_SeenExhausted ==
  /\ GapPassed
  /\ \E i, j \in ActiveFlexible(tasks) :
       i < j /\ tasks[i].suggestedTime # NoTime /\ tasks[j].suggestedTime = NoTime

----------------------------------------------------------------------------
(* C15: after a pass that ran with at least one active flexible task,      *)
(* every non-completed flexible task that was not assigned a slot in that  *)
(* pass has no suggestedTime, even if it carried one before the pass.      *)

\* the ids that the pass assigned a slot
Assigned == { lastPass.suggestions[k].id : k \in 1..Len(lastPass.suggestions) }

C15_StaleSuggestionCleared ==
  lastPass.setTasks =>
    \A i \in ActiveFlexible(tasks) :
      tasks[i].id \notin Assigned => tasks[i].suggestedTime = NoTime

\* a pass left without a slot a task that carried a suggestion before it
C15_Witness ==
  /\ GapPassed
  /\ \E i \in ActiveFlexible(tasks) :
       /\ tasks[i].id \notin Assigned
       /\ lastPass.before[i].suggestedTime # NoTime

----------------------------------------------------------------------------
(* C16: a pass changes nothing but the suggestedTime of non-completed      *)
(* flexible tasks: every completed task and every daily or once task is    *)
(* the same before and after, and so are the number and order of tasks and *)
(* all other fields of the flexible tasks.                                 *)

WithoutSuggestion(task) == [task EXCEPT !.suggestedTime = NoTime]

C16_PassFrame ==
  lastPass.version # "none" =>
    /\ Len(tasks) = Len(lastPass.before)
    /\ \A i \in 1..Len(tasks) :
         IF lastPass.before[i].type = "flexible" /\ ~lastPass.before[i].completed
         THEN WithoutSuggestion(tasks[i]) = WithoutSuggestion(lastPass.before[i])
         ELSE tasks[i] = lastPass.before[i]

\* a pass that changed a suggestion, over a collection that also holds a completed
\* flexible task with a suggestion and a task that is not flexible
C16_Witness ==
  /\ GapPassed
  /\ \E i \in 1..Len(tasks) : tasks[i].suggestedTime # lastPass.before[i].suggestedTime
  /\ \E i \in 1..Len(tasks) :
       tasks[i].type = "flexible" /\ tasks[i].completed /\ tasks[i].suggestedTime # NoTime
  /\ \E i \in 1..Len(tasks) : tasks[i].type # "flexible"

----------------------------------------------------------------------------
(* C17: when the collection holds no task that is both flexible and not    *)
(* completed, optimizeSchedule (either page's) leaves the collection as it *)
(* was, does not call setTasks and only reports that there is nothing to   *)
(* optimize; the empty collection included.                                *)

C17_NothingToOptimize ==
  (lastPass.version # "none" /\ ActiveFlexible(lastPass.before) = {}) =>
    /\ tasks = lastPass.before
    /\ ~lastPass.setTasks
    /\ lastPass.toast = "No flexible tasks to optimize"

\* the current page's optimizer was run on a collection whose only flexible tasks are
\* completed and carry a suggestion
C17_Witness ==
  /\ lastPass.version = "gap"
  /\ ActiveFlexible(lastPass.before) = {}
  /\ \E i \in 1..Len(tasks) : tasks[i].type = "flexible" /\ tasks[i].suggestedTime # NoTime
  /\ \E i \in 1..Len(tasks) : tasks[i].startTime # NoTime

\* either optimizer was run on the empty collection
C17_SeenEmpty == lastPass.version = "gap" /\ lastPass.before = <<>>

C17_SeenEmptyEarlier == lastPass.version = "random" /\ lastPass.before = <<>>

\* the earlier page's optimizer was run on completed flexible tasks only
C17_SeenEarlier ==
  /\ lastPass.version = "random"
  /\ lastPass.before # <<>>
  /\ ActiveFlexible(lastPass.before) = {}

----------------------------------------------------------------------------
(* C18: when the gap-based optimizer is run twice in succession, with no   *)
(* change to the collection in between, every task has the same            *)
(* suggestedTime after the second run as after the first.                  *)

\* the last two events were passes of the current page's optimizer
GapPassedTwice == lastPass.version = "gap" /\ lastPass.after = "gap"

C18_SecondPassSameSuggestions ==
  GapPassedTwice =>
    \A i \in 1..Len(tasks) : tasks[i].suggestedTime = lastPass.before[i].suggestedTime

\* the second of two passes in succession wrote suggestions
C18_Witness ==
  /\ GapPassedTwice
  /\ lastPass.setTasks
  /\ \E i \in ActiveFlexible(tasks) : tasks[i].suggestedTime # NoTime

----------------------------------------------------------------------------
(* C19: the optimizer is a function of the task collection: in either      *)
(* version of optimizeSchedule, every run started from the same collection *)
(* produces the same suggestedTime for every task.                         *)

\* the collections a run of the given version can produce from a collection
Outcomes(collection, version) ==
  IF version = "gap"
  THEN { updatedTasks(collection, suggestions(collection)) }
  ELSE { updatedTasksRandom(collection, randomSuggestions(collection, draws)) :
           draws \in [1..Len(flexibleTasks(collection)) -> 1..Len(hours)] }

C19_SameCollectionSameSuggestions ==
  lastPass.setTasks =>
    \A other \in Outcomes(lastPass.before, lastPass.version) :
      \A i \in 1..Len(tasks) : other[i].suggestedTime = tasks[i].suggestedTime

----------------------------------------------------------------------------
(* C20: after any sequence of add-dialog and edit-dialog submits, every    *)
(* task of the collection satisfies: a flexible task carries no startTime  *)
(* and no endTime, a daily task carries no date, and a once task carries   *)
(* no frequency.                                                           *)

TypeShaped(task) ==
  /\ task.type = "flexible" => task.startTime = NoTime /\ task.endTime = NoTime
  /\ task.type = "daily" => task.date = Undefined
  /\ task.type = "once" => task.frequency = Undefined

C20_TasksTypeShaped == \A i \in 1..Len(tasks) : TypeShaped(tasks[i])

----------------------------------------------------------------------------
(* C21: generateSchedule includes a non-completed task exactly when it     *)
(* applies today: a daily task when its frequency matches today's weekday  *)
(* (daily always, weekdays Monday to Friday, monday_to_saturday Monday to  *)
(* Saturday, weekends Saturday and Sunday, a named day on that weekday     *)
(* only, no frequency always), a once task when its date is absent or is   *)
(* today, a flexible task always; a completed task is never included.      *)

\* the weekdays, 0 = Sunday, on which a frequency applies
DaysOf(frequency) ==
  CASE frequency = "weekdays" -> 1..5
    [] frequency = "monday_to_saturday" -> 1..6
    [] frequency = "weekends" -> {0, 6}
    [] frequency = "sunday" -> {0}
    [] frequency = "monday" -> {1}
    [] frequency = "tuesday" -> {2}
    [] frequency = "wednesday" -> {3}
    [] frequency = "thursday" -> {4}
    [] frequency = "friday" -> {5}
    [] frequency = "saturday" -> {6}
    [] OTHER -> 0..6

AppliesToday(task) ==
  \/ task.type = "daily" /\ dayOfWeek \in DaysOf(task.frequency)
  \/ task.type = "once" /\ task.date \in { Undefined, "", today }
  \/ task.type = "flexible"

\* the task appears in the schedule
Listed(task) == \E k \in 1..Len(schedule) : schedule[k].task = task

C21_ScheduleHoldsTodaysTasks ==
  pc = "done" =>
    \A i \in 1..Len(tasks) :
      Listed(tasks[i]) <=> (~tasks[i].completed /\ AppliesToday(tasks[i]))

\* a schedule that lists a task of a named day and leaves out another task
C21_Witness ==
  /\ pc = "done"
  /\ \E i \in 1..Len(tasks) :
       /\ tasks[i].type = "daily"
       /\ tasks[i].frequency = dayNames[dayOfWeek + 1]
       /\ Listed(tasks[i])
  /\ \E i \in 1..Len(tasks) : ~tasks[i].completed /\ ~Listed(tasks[i])

----------------------------------------------------------------------------
(* C22: in the list generateSchedule returns, every item whose task has a  *)
(* startTime comes before every item whose task has none; the items with a *)
(* startTime are in non-decreasing order of startTime, are of kind         *)
(* 'scheduled' and display 'start' or 'start - end'; the items without one *)
(* are of kind 'flexible' and display 'Flexible'; each task that applies   *)
(* today appears exactly once.                                             *)

HasStart(item) == item.task.startTime # NoTime

C22_ScheduleOrder ==
  pc = "done" =>
    /\ \A k, l \in 1..Len(schedule) :
         k < l =>
           /\ HasStart(schedule[l]) => HasStart(schedule[k])
           /\ HasStart(schedule[l]) =>
                Minutes(schedule[k].task.startTime) <= Minutes(schedule[l].task.startTime)
    /\ \A k \in 1..Len(schedule) :
         IF HasStart(schedule[k])
         THEN /\ schedule[k].type = "scheduled"
              /\ \/ /\ schedule[k].task.endTime = NoTime
                     /\ schedule[k].time = <<schedule[k].task.startTime>>
                 \/ /\ schedule[k].task.endTime # NoTime
                     /\ schedule[k].time =
                          <<schedule[k].task.startTime, " - ", schedule[k].task.endTime>>
         ELSE /\ schedule[k].type = "flexible"
              /\ schedule[k].time = <<"Flexible">>
    /\ \A i \in 1..Len(tasks) :
         (~tasks[i].completed /\ AppliesToday(tasks[i])) =>
           Cardinality({ k \in 1..Len(schedule) : schedule[k].task = tasks[i] }) = 1

\* a schedule that lists two timed tasks in the reverse of their order in the collection
C22_Witness ==
  /\ pc = "done"
  /\ \E i, j \in 1..Len(tasks) :
       /\ i < j
       /\ \E k, l \in 1..Len(schedule) :
            /\ l < k
            /\ schedule[k].task = tasks[i]
            /\ schedule[l].task = tasks[j]
            /\ HasStart(schedule[k])
            /\ schedule[l].task.endTime # NoTime

\* a schedule that moves a task without a start time behind a later timed task
C22_SeenFlexibleLast ==
  /\ pc = "done"
  /\ Len(schedule) = 2
  /\ schedule[1].task = tasks[2]
  /\ ~HasStart(schedule[2])

----------------------------------------------------------------------------
(* C23: task ids are unique and immutable: after any sequence of addTask,  *)
(* saveEditedTask, toggleTaskComplete, deleteTask and optimizeSchedule     *)
(* calls no two tasks of the collection have the same id, two addTask      *)
(* calls within one clock millisecond included, and no operation changes   *)
(* the id of an existing task.                                             *)

\* the ids of a collection, in its order
Ids(collection) == [ i \in 1..Len(collection) |-> collection[i].id ]

UniqueIds ==
  \A i, j \in 1..Len(tasks) : i # j => tasks[i].id # tasks[j].id

\* the operation that was the last event left the ids of the tasks it kept as they were
IdsKept ==
  /\ lastOp.op \in { "saveEditedTask", "toggleTaskComplete" } => Ids(tasks) = Ids(lastOp.before)
  /\ lastOp.op = "addTask" => SubSeq(Ids(tasks), 1, Len(lastOp.before)) = Ids(lastOp.before)
  /\ lastOp.op = "deleteTask" =>
       Ids(tasks) = SelectSeq(Ids(lastOp.before), LAMBDA id : id # lastOp.id)
  /\ lastPass.version # "none" => Ids(tasks) = Ids(lastPass.before)

C23_IdsUniqueAndImmutable == UniqueIds /\ IdsKept

----------------------------------------------------------------------------
(* C24: the time primitives are mutually inverse on valid values:          *)
(* minutesToTime(timeToMinutes(t)) = t for every zero-padded HH:MM string  *)
(* t from 00:00 to 23:59, with timeToMinutes(t) in [0, 1439], and          *)
(* timeToMinutes(minutesToTime(m)) = m for every integer m >= 0, those     *)
(* from 1440 on included (the hour is then 24 or more, without wrapping).  *)

C24_TimePrimitivesInverse ==
  pc = "done" =>
    /\ prim.kind = "time" =>
         /\ prim.back = prim.time
         /\ prim.minutes \in 0..1439
    /\ prim.kind = "minutes" =>
         /\ prim.back = prim.minutes
         /\ prim.minutes >= 1440 => Number(split(prim.time)[1]) >= 24

\* minutesToTime was applied to a minute count past the end of the day
C24_Witness ==
  /\ pc = "done"
  /\ prim.kind = "minutes"
  /\ prim.minutes >= 1440
  /\ prim.impl = "conflictDetection"

\* timeToMinutes was applied to a time with leading zeros
C24_SeenPaddedTime ==
  /\ pc = "done"
  /\ prim.kind = "time"
  /\ prim.time = <<"0", "9", ":", "0", "5">>
  /\ prim.impl = "Index"

\* the pairs <<HH, MM>> used elsewhere stand for these texts: the primitives on pairs
\* and on text agree
PairsAgreeWithText ==
  pc = "done" =>
    /\ prim.kind = "minutes" =>
         /\ Text(minutesToTime(prim.minutes)) = minutesToTimeText(prim.minutes)
         /\ Text(pageMinutesToTime(prim.minutes)) = pageMinutesToTimeText(prim.minutes)
    /\ prim.kind = "time" =>
         \A h \in 0..23, m \in 0..59 :
           Text(T(h, m)) = prim.time =>
             /\ timeToMinutes(T(h, m)) = timeToMinutesText(prim.time)
             /\ pageTimeToMinutes(T(h, m)) = pageTimeToMinutesText(prim.time)

----------------------------------------------------------------------------
(* C25: the core operations are total on well-formed input. checkTimeConflicts
   returns hasConflicts = false with an empty list for a candidate without
   startTime and for an empty existing-task list, never reports an existing task
   without startTime, and compares a task without endTime as the interval
   [start, start + 60); generateSchedule returns the empty schedule and
   optimizeSchedule returns after its "No flexible tasks" notice on an empty
   collection; checkTimeConflicts and generateSchedule can be called in every
   input state, and each operation returns a value of its result type. *)

\* the last call was checkTimeConflicts
CheckReturned == pc = "done" /\ ~result.isNull

\* the last call was generateSchedule
ScheduleReturned == pc = "done" /\ result.isNull

\* the interval of a task, an absent endTime read as start + 60
HourDefault(task) ==
  IF task.endTime = NoTime THEN Minutes(task.startTime) + 60 ELSE Minutes(task.endTime)

C25_CoreOperationsTotal ==
  /\ pc = "input" => ENABLED CallCheckTimeConflicts /\ ENABLED CallGenerateSchedule
  /\ CheckReturned =>
       /\ result.hasConflicts \in BOOLEAN
       /\ result.hasConflicts = (Len(result.conflicts) > 0)
       /\ newTask.startTime = NoTime =>
            /\ result.hasConflicts = FALSE
            /\ result.conflicts = <<>>
       /\ existingTasks = <<>> =>
            /\ result.hasConflicts = FALSE
            /\ result.conflicts = <<>>
       /\ \A k \in 1..Len(result.conflicts) :
            result.conflicts[k].conflictingTask.startTime # NoTime
       /\ \A i \in 1..Len(existingTasks) :
            (/\ newTask.startTime # NoTime
             /\ existingTasks[i].startTime # NoTime
             /\ Eligible(newTask, existingTasks[i])
             /\ newTask.endTime = NoTime \/ existingTasks[i].endTime = NoTime)
            => (Reported(i) <=>
                  Intersect(Minutes(newTask.startTime), HourDefault(newTask),
                            Minutes(existingTasks[i].startTime),
                            HourDefault(existingTasks[i])))
  /\ ScheduleReturned =>
       /\ Len(schedule) <= Len(tasks)
       /\ \A k \in 1..Len(schedule) : schedule[k].type \in {"scheduled", "flexible"}
       /\ tasks = <<>> => schedule = <<>>
  /\ lastPass.version = "gap" =>
       /\ lastPass.toast \in {"No flexible tasks to optimize", "Schedule optimized!"}
       /\ lastPass.before = <<>> =>
            /\ lastPass.toast = "No flexible tasks to optimize"
            /\ ~lastPass.setTasks
            /\ tasks = <<>>

\* checkTimeConflicts returned for a timed candidate without endTime against a list
\* that holds a task without startTime and a task without endTime it collides with
C25_Witness ==
  /\ CheckReturned
  /\ newTask.startTime # NoTime /\ newTask.endTime = NoTime
  /\ Len(existingTasks) = 2
  /\ existingTasks[1].startTime = NoTime
  /\ existingTasks[2].startTime # NoTime /\ existingTasks[2].endTime = NoTime
  /\ Len(result.conflicts) = 1

\* checkTimeConflicts returned for a candidate without startTime against a non-empty list
C25_SeenUntimedCandidate ==
  /\ CheckReturned
  /\ newTask.startTime = NoTime
  /\ Len(existingTasks) > 0

\* generateSchedule returned on the empty collection
C25_SeenEmptySchedule ==
  /\ ScheduleReturned
  /\ tasks = <<>>

\* optimizeSchedule returned on the empty collection
C25_SeenEmptyPass ==
  /\ lastPass.version = "gap"
  /\ lastPass.before = <<>>

----------------------------------------------------------------------------
(* C26: for a collection with distinct ids whose timed tasks have end >= start,
   the hours [s, s + 60) that one pass of the gap-based optimizer assigns
   overlap no occupied interval (the interval of a non-completed task with a
   startTime, or an injected sleep or morning block) and are pairwise disjoint,
   so no two flexible tasks receive the same suggestedTime. *)

\* the occupied intervals of a collection: its timed tasks and the injected blocks
OccupiedIntervals(collection) ==
  { IntervalOf(collection[i]) : i \in Occupying(collection) }
    \cup { v \in VirtualBlocks : ~Overlapped(v, collection) }

\* the starts, in minutes, that the pass handed out
AssignedStarts ==
  { Minutes(lastPass.suggestions[k].suggestedTime) : k \in 1..Len(lastPass.suggestions) }

\* no two tasks of the collection share an id
DistinctIds(collection) ==
  \A i, j \in 1..Len(collection) : i # j => collection[i].id # collection[j].id

EndsAfterStarts(collection) ==
  \A i \in Occupying(collection) :
    IntervalOf(collection[i]).end >= IntervalOf(collection[i]).start

----------------------------------------------------------------------------
(* C27: after any sequence of add-dialog submits, edit-dialog submits,
   completion toggles and deletes, the collection holds no two non-completed
   timed tasks that are eligible for comparison, share the category and have
   overlapping intervals. *)

SameCategoryCollision(a, b) ==
  /\ Eligible(a, b)
  /\ a.category = b.category
  /\ TimedOverlap(a, b)

CollisionFree(collection) ==
  \A i, j \in 1..Len(collection) :
    i # j => ~SameCategoryCollision(collection[i], collection[j])

C27_NoSameCategoryCollision == CollisionFree(tasks)

\* un-completing a task brought a daily task back next to one that was added in
\* its place
C27_SeenToggleCollision ==
  /\ lastOp.op = "toggleTaskComplete"
  /\ CollisionFree(lastOp.before)
  /\ \E i, j \in 1..Len(tasks) :
       /\ i # j
       /\ tasks[i].id = lastOp.id
       /\ tasks[i].type = "daily" /\ tasks[j].type = "daily"
       /\ SameCategoryCollision(tasks[i], tasks[j])

\* the add dialog stored a second once task without a date at the same hour
C27_SeenDatelessCollision ==
  /\ lastSubmit.outcome = "added"
  /\ \E i, j \in 1..Len(tasks) :
       /\ i # j
       /\ tasks[i].type = "once" /\ tasks[j].type = "once"
       /\ tasks[i].date = Undefined /\ tasks[j].date = Undefined
       /\ SameCategoryCollision(tasks[i], tasks[j])

----------------------------------------------------------------------------
(* C28: every suggestedTime the core produces denotes a minute of the day, 0
   to 1439, with an hour field of 00 to 23: the suggestedTime checkTimeConflicts
   returns for a candidate with a valid startTime, late starts such as 23:30
   included, and every suggestedTime optimizeSchedule writes. *)

\* the time <<hour, minute>> names a minute of the day
WallClock(time) ==
  /\ time[1] \in 0..23
  /\ time[2] \in 0..59
  /\ Minutes(time) \in 0..1439

\* every suggestion the last pass handed out, and every one it left on a task
OptimizerSuggestionsInDay ==
  lastPass.setTasks =>
    /\ \A k \in 1..Len(lastPass.suggestions) : WallClock(lastPass.suggestions[k].suggestedTime)
    /\ \A i \in ActiveFlexible(tasks) :
         tasks[i].suggestedTime # NoTime => WallClock(tasks[i].suggestedTime)

C28_SuggestedTimeInDay ==
  /\ (pc = "done" /\ ~result.isNull /\ result.suggestedTime # NoTime) =>
       WallClock(result.suggestedTime)
  /\ OptimizerSuggestionsInDay

\* a candidate at 23:30 against a task at 23:00: the suggestion is 24:00
C28_SeenMidnight ==
  /\ pc = "done"
  /\ newTask.startTime = T(23, 30)
  /\ result.hasConflicts
  /\ result.suggestedTime = <<24, 0>>

----------------------------------------------------------------------------
(* C29: in the edit dialog the task being edited is taken out of the comparison
   set before the conflict check: no entry of the conflict result has the
   edited task's id, every entry is another stored task, and a submit is
   blocked only by such an entry, so re-saving a task unchanged is never
   blocked by its own stored copy. *)

\* the stored tasks other than the one being edited
OtherStored == { tasks[j] : j \in { n \in 1..Len(tasks) : tasks[n].id # editingTask.id } }

C29_EditedTaskNotCompared ==
  (dialog = "edit" /\ editingTask # NoTask) =>
    /\ \A k \in 1..Len(conflictResult.conflicts) :
         /\ conflictResult.conflicts[k].conflictingTask.id # editingTask.id
         /\ conflictResult.conflicts[k].conflictingTask \in OtherStored
    /\ conflictResult.hasConflicts => OtherStored # {}
    /\ lastSubmit.outcome = "blocked" =>
         \E k \in 1..Len(conflictResult.conflicts) :
           conflictResult.conflicts[k].conflictingTask \in OtherStored
    /\ (form = LoadForm(editingTask) /\ OtherStored = {}) =>
         /\ ~conflictResult.hasConflicts
         /\ lastSubmit.outcome # "blocked"

\* the edit dialog is open on a stored timed task, nothing changed, and the conflict
\* check ran against the other tasks without reporting anything
C29_Witness ==
  /\ dialog = "edit"
  /\ form = LoadForm(editingTask)
  /\ ~editingTask.completed
  /\ editingTask.startTime # NoTime
  /\ ~conflictResult.isNull
  /\ ~conflictResult.hasConflicts
  /\ \E j \in 1..Len(tasks) : tasks[j] = editingTask

\* a task re-saved unchanged from the edit dialog
C29_SeenResaved ==
  /\ lastSubmit.dialog = "edit"
  /\ lastSubmit.outcome = "saved"
  /\ form = LoadForm(editingTask)
  /\ editingTask.startTime # NoTime
  /\ ~editingTask.completed
  /\ Len(tasks) = 2

\* an edit moved onto another task's hour was reported with that task
C29_SeenOtherReported ==
  /\ dialog = "edit"
  /\ conflictResult.hasConflicts

----------------------------------------------------------------------------
(* C30: the collection operations touch only their target. toggleTaskComplete(id)
   flips the completed flag of the task with that id and nothing else, and a
   second application restores the collection; saveEditedTask puts the updated
   task in the place of the task with its id and keeps the number and order of
   the tasks; deleteTask(id) removes the task with that id and keeps the others
   in order; addTask appends one task and leaves the existing ones as they
   were. *)

\* positions of the tasks of a collection that carry the id
Targets(collection, id) == { i \in 1..Len(collection) : collection[i].id = id }

ToggleFrame ==
  lastOp.op = "toggleTaskComplete" =>
    /\ Len(tasks) = Len(lastOp.before)
    /\ \A i \in 1..Len(tasks) :
         IF i \in Targets(lastOp.before, lastOp.id)
         THEN /\ tasks[i].completed = ~lastOp.before[i].completed
              /\ [tasks[i] EXCEPT !.completed = lastOp.before[i].completed] = lastOp.before[i]
         ELSE tasks[i] = lastOp.before[i]
    /\ toggleTaskComplete(tasks, lastOp.id) = lastOp.before

SaveFrame ==
  lastOp.op = "saveEditedTask" =>
    /\ Len(tasks) = Len(lastOp.before)
    /\ lastOp.arg.id = lastOp.id
    /\ \A i \in 1..Len(tasks) :
         IF i \in Targets(lastOp.before, lastOp.id)
         THEN tasks[i] = lastOp.arg
         ELSE tasks[i] = lastOp.before[i]

DeleteFrame ==
  lastOp.op = "deleteTask" =>
    /\ Len(tasks) = Len(lastOp.before) - Cardinality(Targets(lastOp.before, lastOp.id))
    /\ Targets(tasks, lastOp.id) = {}
    /\ \A i \in 1..Len(lastOp.before) :
         i \notin Targets(lastOp.before, lastOp.id) =>
           tasks[i - Cardinality({ j \in Targets(lastOp.before, lastOp.id) : j < i })]
             = lastOp.before[i]

AddFrame ==
  lastOp.op = "addTask" =>
    /\ Len(tasks) = Len(lastOp.before) + 1
    /\ \A i \in 1..Len(lastOp.before) : tasks[i] = lastOp.before[i]
    /\ tasks[Len(tasks)] = [lastOp.arg EXCEPT !.id = lastOp.id]

C30_OperationsTouchOnlyTarget ==
  /\ ToggleFrame
  /\ SaveFrame
  /\ DeleteFrame
  /\ AddFrame

\* deleteTask removed the first of two tasks and kept the second
C30_Witness ==
  /\ lastOp.op = "deleteTask"
  /\ Len(lastOp.before) = 2
  /\ lastOp.id = lastOp.before[1].id
  /\ tasks = << lastOp.before[2] >>

\* toggleTaskComplete un-completed the second of two tasks
C30_SeenToggle ==
  /\ lastOp.op = "toggleTaskComplete"
  /\ Len(tasks) = 2
  /\ lastOp.before[2].completed /\ ~tasks[2].completed
  /\ tasks[1] = lastOp.before[1]

\* saveEditedTask changed the first of two tasks
C30_SeenSave ==
  /\ lastOp.op = "saveEditedTask"
  /\ Len(tasks) = 2
  /\ tasks[1] # lastOp.before[1]
  /\ tasks[2] = lastOp.before[2]

\* addTask appended to a collection that held a task
C30_SeenAdd ==
  /\ lastOp.op = "addTask"
  /\ Len(lastOp.before) = 1
  /\ Len(tasks) = 2

====
